---- MODULE Spec2Model ----
(***************************************************************************)
(* A model of the NADAG aggregation pipeline of core_components            *)
(* (src/core_components/api/nadag_api.py):                                 *)
(*   - the concurrent link resolver   get_async / get_href_list            *)
(*   - the paginated fetcher          get_collection                       *)
(*   - the interval-flag scan         create_flagged_column /              *)
(*                                    create_intervals_from_comments       *)
(*   - the sounding normalizer        get_soundings                        *)
(*   - its column steps               get_soundings, lines 151-157         *)
(*   - the sample builder             get_samples                          *)
(*   - the sounding assembly          get_all_soundings                    *)
(*   - the large-extent assembly      get_data_big_areas / split_bbox      *)
(*   - the representative depth       _get_sample_depth                    *)
(*   - the soil classification        _clf_aggr                            *)
(*   - the grid of cells              split_bbox (utils/geo.py)            *)
(*   - the aggregation of samples     aggregate_samples                    *)
(*   - the loop over the cells        get_data_big_areas, lines 622-646    *)
(* Each component has its own specification (SpecResolve, SpecFetch,       *)
(* SpecFlags, SpecNorm, SpecColumns, SpecSamples, SpecSoundings,           *)
(* SpecAssemble, SpecDepth, SpecClassify, SpecSplit, SpecAggregate,        *)
(* SpecCells); the variables of the other components stay idle. The loop   *)
(* over the cells runs the sounding assembly for each cell.                *)
(***************************************************************************)
EXTENDS Integers, Sequences, FiniteSets, TLC

(***************************************************************************)
(* Bounds of the model.                                                    *)
(***************************************************************************)
MaxUrls == 2          \* longest href_list handed to get_href_list
MaxMatched == 1       \* largest numberReturned / numberMatched a server reports
MaxPages == 3         \* most page requests one get_collection call is followed for
MaxRows == 5          \* most rows of a frame handed to create_intervals_from_comments
MaxDocs == 2          \* most observation documents handed to the get_soundings loop

(***************************************************************************)
(* ---------------- State ------------------------------------------------ *)
(***************************************************************************)
\* the concurrent link resolver: get_href_list and its get_async tasks
VARIABLES
    href_list,   \* the argument of get_href_list: a sequence of optional URLs
    pc,          \* pc[i]: where the task get_async(href_list[i]) stands
    data,        \* data[i]: the local variable `data` of task i
    requests,    \* requests[i]: the GETs task i has issued, in order
    responses,   \* responses[i]: the documents task i has received, in order
    order,       \* the slots in the order their tasks finished (returned or raised)
    gpc,         \* the awaiting get_href_list: "idle", "running", "returned", "raised"
    result       \* the list get_href_list returned

\* the paginated fetcher: get_collection
VARIABLES
    url,             \* the local `url`: where the next GET goes
    cont,            \* the local `cont`: requests sent so far
    next_page,       \* the local `next_page`
    data_list,       \* the local `data_list`: features accumulated so far
    fetch_requests,  \* the GETs sent: <<[url, params]>>
    pages,           \* the decoded JSON documents received, in order
    failure,         \* "none", or why a page request failed: "status" / "body"
    fpc,             \* get_collection: "idle", "loop", "returned", "raised"
    fetched          \* what get_collection returned

\* the interval-flag scan: create_intervals_from_comments
VARIABLES
    input_df,        \* the argument input_df: its columns and its rows in index order
    interval_flags,  \* the returned frame: hammering, increased_rotation_rate, flushing
    flpc             \* "idle", "called", "returned"

\* the sounding normalizer: the loop of get_soundings
VARIABLES
    method,          \* the argument `method`
    ks_data,         \* the resolved observation documents (line 134)
    ii,              \* the loop index: documents handled so far
    new_elem,        \* the local `new_elem`: a reference into heap, or Unbound
    heap,            \* the DataFrame objects created so far
    ks_data_df,      \* the list being returned: references into heap
    npc              \* "idle", "loop", "returned", "raised"

resolveVars == <<href_list, pc, data, requests, responses, order, gpc, result>>
fetchVars ==
    <<url, cont, next_page, data_list, fetch_requests, pages, failure, fpc, fetched>>
flagVars == <<input_df, interval_flags, flpc>>
normVars == <<method, ks_data, ii, new_elem, heap, ks_data_df, npc>>

\* the column steps of get_soundings (lines 151-157), applied to one table
VARIABLES
    labels,          \* the column labels of the table, in order
    passes,          \* how many times the column steps have run over it
    label_history    \* the labels at the start and after each pass

columnVars == <<labels, passes, label_history>>

\* the representative depth of one sample row: _get_sample_depth
VARIABLES
    depth_top,       \* sample.depth_top
    depth_base,      \* sample.depth_base
    depth_out,       \* the local `depth`: what the call returned
    dpc              \* "idle", "called", "returned", "raised"

depthVars == <<depth_top, depth_base, depth_out, dpc>>

\* the soil classification of one group of sample rows: _clf_aggr
VARIABLES
    raw_composition,     \* the group's layer_composition values as merged
    layer_composition,   \* the column after line 461
    classification,      \* what _clf_aggr returned for the group
    clpc                 \* "idle", "merged", "lowered", "classified"

classifyVars == <<raw_composition, layer_composition, classification, clpc>>

\* the sample builder: get_samples over one batch of investigations
VARIABLES
    ps_column,       \* gbhu has the column "metode-GeotekniskPrøveserie"
    base_column,     \* the merged records carry the column tilLengde
    ps,              \* ps[i]: the sample-series reference of investigation i
    bh,              \* the investigations dropna(subset=["ps"]) keeps
    sample_info,     \* the series records (line 421)
    sample_data_general_dict,   \* the segment records (line 429)
    sample_data,     \* the data records (line 438)
    samples_gdf,     \* what get_samples returned
    sample_error,    \* the exception that left get_samples, or "none"
    spc              \* "idle", "called", "series", "segments", "data",
                     \* "returned", "raised"

sampleVars ==
    <<ps_column, base_column, ps, bh, sample_info, sample_data_general_dict,
      sample_data, samples_gdf, sample_error, spc>>

\* the sounding assembly of one batch: get_all_soundings and its three
\* get_soundings tasks
VARIABLES
    borehullunders,  \* the argument: the investigations, in row order
    href_dicts,      \* href_dicts[m]: ss_href_list / ks_href_list / ts_href_list
    task,            \* task[m]: "none", "running", "observations", "done", "raised"
    task_data,       \* task_data[m]: the list the task of method m returned
    boreholes_out,   \* the local boreholes_out: None or the rows
    sounding_error,  \* the exception that left get_all_soundings, or "none"
    sopc             \* "idle", "called", "gather", "gathered", "assembled",
                     \* "returned", "raised"

soundingVars ==
    <<borehullunders, href_dicts, task, task_data, boreholes_out,
      sounding_error, sopc>>

\* the assembly over a large extent: get_data_big_areas
VARIABLES
    bounds,              \* the argument bounds: <<minx, miny, maxx, maxy>>
    max_dist_query,      \* the argument max_dist_query
    include_samples,     \* the argument include_samples
    location_name_column,  \* the investigation frames have a column location_name
    positions,           \* where the server has investigations
    grid,                \* <<n_cols, n_rows>> (line 611)
    sub_boxes,           \* the cells <<i, j>> in the order split_bbox lists them
    gbhu_list,           \* the investigation frame of each cell, then filtered
    gbhu,                \* pd.concat(gbhu_list)
    borehole_list,       \* per processed cell: None or the sounding rows
    sample_list,         \* per processed cell: None or the sample rows
    failed,              \* the cells (indices of gbhu_list) whose processing raised
    assembled,           \* the returned <<gbhu, borehole_gdf, sample_gdf>>
    assemble_error,      \* the exception that left get_data_big_areas, or "none"
    apc                  \* "idle", "called", "fetching", "processing",
                         \* "returned", "raised"

assembleVars ==
    <<bounds, max_dist_query, include_samples, location_name_column, positions,
      grid, sub_boxes, gbhu_list, gbhu, borehole_list, sample_list, failed,
      assembled, assemble_error, apc>>

\* split_bbox (utils/geo.py 4-21) on its own
VARIABLES
    bbox,                \* total_bounds of the argument: <<minx, miny, maxx, maxy>>
    split_rows,          \* the argument n_rows
    split_cols,          \* the argument n_cols
    subgrid,             \* the frame returned: rows [id, geometry]
    gridpc               \* "idle", "called", "returned"

splitVars == <<bbox, split_rows, split_cols, subgrid, gridpc>>

\* the loop over the cells of get_data_big_areas (nadag_api.py 622-646), with
\* the get_all_soundings call of each cell running as the sounding assembly
VARIABLES
    cell_frames,         \* gbhu_list after line 619: the frames of the cells
    cell_sample_data,    \* per cell, what get_samples finds: [raises, rows]
    cell_include_samples,\* the argument include_samples
    cell_location_name,  \* the frames have a column location_name
    cell_boreholes,      \* borehole_list
    cell_samples,        \* sample_list
    cell_events,         \* what the loop did so far: <<event, cell>>
    cell_result,         \* <<borehole_gdf, sample_gdf>>
    cpc                  \* "idle", "loop", "soundings", "samples", "returned",
                         \* "raised"

cellVars ==
    <<cell_frames, cell_sample_data, cell_include_samples, cell_location_name,
      cell_boreholes, cell_samples, cell_events, cell_result, cpc>>

\* the aggregation of the merged sample rows (get_samples 461-481,
\* aggregate_samples 539-570)
VARIABLES
    merged_in,           \* the merged rows as they are before line 461
    sample_merged,       \* the frame sample_merged
    aggregate,           \* the argument aggregate
    map_layer_composition, \* the argument map_layer_composition
    agpc                 \* "idle", "merged", "done"

aggregateVars ==
    <<merged_in, sample_merged, aggregate, map_layer_composition, agpc>>

vars ==
    <<resolveVars, fetchVars, flagVars, normVars, columnVars, sampleVars,
      soundingVars, assembleVars, depthVars, classifyVars, splitVars,
      aggregateVars, cellVars>>

\* what the steps of one component leave alone
outsideResolve ==
    <<fetchVars, flagVars, normVars, columnVars, sampleVars, soundingVars,
      assembleVars, depthVars, classifyVars, splitVars, aggregateVars,
      cellVars>>
outsideFetch ==
    <<resolveVars, flagVars, normVars, columnVars, sampleVars,
      soundingVars, assembleVars, depthVars, classifyVars, splitVars,
      aggregateVars, cellVars>>
outsideFlags ==
    <<resolveVars, fetchVars, normVars, columnVars, sampleVars,
      soundingVars, assembleVars, depthVars, classifyVars, splitVars,
      aggregateVars, cellVars>>
outsideNorm ==
    <<resolveVars, fetchVars, flagVars, columnVars, sampleVars,
      soundingVars, assembleVars, depthVars, classifyVars, splitVars,
      aggregateVars, cellVars>>
outsideColumns ==
    <<resolveVars, fetchVars, flagVars, normVars, sampleVars, soundingVars,
      assembleVars, depthVars, classifyVars, splitVars, aggregateVars,
      cellVars>>
outsideSamples ==
    <<resolveVars, fetchVars, flagVars, normVars, columnVars, soundingVars,
      assembleVars, depthVars, classifyVars, splitVars, aggregateVars,
      cellVars>>
outsideSoundings ==
    <<resolveVars, fetchVars, flagVars, normVars, columnVars, sampleVars,
      assembleVars, depthVars, classifyVars, splitVars, aggregateVars,
      cellVars>>
outsideAssemble ==
    <<resolveVars, fetchVars, flagVars, normVars, columnVars, sampleVars,
      soundingVars, depthVars, classifyVars, splitVars, aggregateVars,
      cellVars>>
outsideDepth ==
    <<resolveVars, fetchVars, flagVars, normVars, columnVars, sampleVars,
      soundingVars, assembleVars, classifyVars, splitVars, aggregateVars,
      cellVars>>
outsideClassify ==
    <<resolveVars, fetchVars, flagVars, normVars, columnVars, sampleVars,
      soundingVars, assembleVars, depthVars, splitVars, aggregateVars,
      cellVars>>
outsideSplit ==
    <<resolveVars, fetchVars, flagVars, normVars, columnVars, sampleVars,
      soundingVars, assembleVars, depthVars, classifyVars, aggregateVars,
      cellVars>>
outsideAggregate ==
    <<resolveVars, fetchVars, flagVars, normVars, columnVars, sampleVars,
      soundingVars, assembleVars, depthVars, classifyVars, splitVars,
      cellVars>>
outsideCells ==
    <<resolveVars, fetchVars, flagVars, normVars, columnVars, sampleVars,
      soundingVars, assembleVars, depthVars, classifyVars, splitVars,
      aggregateVars>>

\* what the call of get_all_soundings from the cell loop leaves alone
outsideCellsCall ==
    <<resolveVars, fetchVars, flagVars, normVars, columnVars, sampleVars,
      assembleVars, depthVars, classifyVars, splitVars, aggregateVars>>

(***************************************************************************)
(* Common helpers.                                                         *)
(***************************************************************************)
Min(a, b) == IF a <= b THEN a ELSE b

RECURSIVE Concat(_)
\* the concatenation of a sequence of sequences (list.extend, repeated)
Concat(ss) == IF ss = <<>> THEN <<>> ELSE Head(ss) \o Concat(Tail(ss))

SeqsUpTo(S, n) == UNION {[1..k -> S] : k \in 0..n}

(***************************************************************************)
(* ---------------- Concurrent link resolver ----------------------------- *)
(* get_async (nadag_api.py 100-113), get_href_list (116-117).              *)
(***************************************************************************)
None == "None"                 \* Python's None in a URL position
URLS == {"u1", "u2"}           \* the hrefs of the model
OptionalUrls == URLS \cup {None}

NoneDoc == [href |-> None]     \* Python's None in a document position
NoParams == <<>>               \* client.get(href)
LimitParams(n) == <<n>>        \* client.get(href, params={'limit': n})

\* The counters a server may put into the JSON of a first response: each of
\* numberReturned / numberMatched present or absent.
Counters ==
    {[hasNR |-> a, hasNM |-> b, numberReturned |-> x, numberMatched |-> y] :
        a \in BOOLEAN, b \in BOOLEAN, x \in 0..MaxMatched, y \in 0..MaxMatched}
    \ {c \in [hasNR : BOOLEAN, hasNM : BOOLEAN,
              numberReturned : 0..MaxMatched, numberMatched : 0..MaxMatched] :
          (~c.hasNR /\ c.numberReturned # 0) \/ (~c.hasNM /\ c.numberMatched # 0)}

\* response.json() of a GET of href with params, the server reporting counters c
Document(href, params, c) ==
    [href |-> href, params |-> params,
     hasNR |-> c.hasNR, hasNM |-> c.hasNM,
     numberReturned |-> c.numberReturned, numberMatched |-> c.numberMatched]

\* what the server answers to the reissued request: the limit lifts the truncation
LimitedCounters(d, limit) ==
    [hasNR |-> d.hasNR, hasNM |-> d.hasNM,
     numberReturned |-> Min(limit, d.numberMatched), numberMatched |-> d.numberMatched]

\* faulty variant of IsNoneHref: the `if href is None` test is lost
IsNoneHref_never(href) == FALSE

\* get_async, line 101: if href is None
IsNoneHref(href) == href = None

\* get_async, lines 108-109: both counters present and numberReturned < numberMatched
Truncated(d) ==
    /\ d.hasNR /\ d.hasNM
    /\ d.numberReturned < d.numberMatched

\* faulty variant of RefetchParams: the limit is numberMatched, not numberMatched + 1
RefetchParams_noplus(d) == LimitParams(d.numberMatched)

\* get_async, line 110: params={'limit': data["numberMatched"]+1}
RefetchParams(d) == LimitParams(d.numberMatched + 1)

\* faulty variant of GatherResults: the results are collected as the tasks finish
GatherResults_byCompletion(ds, ord) == [k \in 1..Len(ord) |-> ds[ord[k]]]

\* asyncio.gather, line 117: the results in the order of the awaitables
GatherResults(ds, ord) == [k \in 1..Len(ds) |-> ds[k]]

Slots == 1..Len(href_list)

ResolveInit ==
    /\ href_list \in SeqsUpTo(OptionalUrls, MaxUrls)
    /\ pc = [i \in 1..Len(href_list) |-> "created"]
    /\ data = [i \in 1..Len(href_list) |-> NoneDoc]
    /\ requests = [i \in 1..Len(href_list) |-> <<>>]
    /\ responses = [i \in 1..Len(href_list) |-> <<>>]
    /\ order = <<>>
    /\ gpc = "idle"
    /\ result = <<>>

ResolveIdle ==
    /\ href_list = <<>> /\ pc = <<>> /\ data = <<>> /\ requests = <<>>
    /\ responses = <<>>
    /\ order = <<>> /\ gpc = "idle" /\ result = <<>>

\* get_href_list is called: gather wraps every get_async(href) in a task and the
\* loop runs each, in order, up to its first suspension.  A task of a None href
\* returns None at once; every other task sends its first GET and suspends.
Dispatch ==
    /\ gpc = "idle"
    /\ gpc' = "running"
    /\ pc' = [i \in Slots |-> IF IsNoneHref(href_list[i]) THEN "done" ELSE "await1"]
    /\ requests' = [i \in Slots |->
            IF IsNoneHref(href_list[i]) THEN <<>>
            ELSE <<[href |-> href_list[i], params |-> NoParams]>>]
    /\ order' = SelectSeq([i \in Slots |-> i], LAMBDA i : IsNoneHref(href_list[i]))
    /\ UNCHANGED <<href_list, data, responses, result>>
    /\ UNCHANGED outsideResolve

\* the first response of task i arrives and is decoded (lines 105-106); if it is
\* truncated the task reissues the request with a limit (lines 108-110)
Respond1(i) ==
    /\ pc[i] = "await1"
    /\ href_list[i] # None
    /\ \E c \in Counters :
        LET d == Document(href_list[i], NoParams, c) IN
        /\ data' = [data EXCEPT ![i] = d]
        /\ responses' = [responses EXCEPT ![i] = Append(@, d)]
        /\ \/ /\ Truncated(d)
              /\ pc' = [pc EXCEPT ![i] = "await2"]
              /\ requests' = [requests EXCEPT ![i] =
                    Append(@, [href |-> href_list[i], params |-> RefetchParams(d)])]
              /\ order' = order
           \/ /\ ~Truncated(d)
              /\ pc' = [pc EXCEPT ![i] = "done"]
              /\ requests' = requests
              /\ order' = Append(order, i)
    /\ UNCHANGED <<href_list, gpc, result>>
    /\ UNCHANGED outsideResolve

\* the response to the reissued request arrives (lines 110-111); the task returns it
Respond2(i) ==
    /\ pc[i] = "await2"
    /\ LET req == requests[i][Len(requests[i])]
           d == Document(req.href, req.params, LimitedCounters(data[i], req.params[1]))
       IN /\ data' = [data EXCEPT ![i] = d]
          /\ responses' = [responses EXCEPT ![i] = Append(@, d)]
    /\ pc' = [pc EXCEPT ![i] = "done"]
    /\ order' = Append(order, i)
    /\ UNCHANGED <<href_list, requests, gpc, result>>
    /\ UNCHANGED outsideResolve

\* a GET of task i times out (httpx.Timeout(TIMEOUT), line 103), the transport
\* fails or the body does not decode: the exception leaves get_async
Fail(i) ==
    /\ pc[i] \in {"await1", "await2"}
    /\ pc' = [pc EXCEPT ![i] = "failed"]
    /\ order' = Append(order, i)
    /\ UNCHANGED <<href_list, data, requests, responses, gpc, result>>
    /\ UNCHANGED outsideResolve

\* every task has returned: gather hands the list of results to get_href_list
GatherReturn ==
    /\ gpc = "running"
    /\ \A i \in Slots : pc[i] = "done"
    /\ gpc' = "returned"
    /\ result' = GatherResults(data, order)
    /\ UNCHANGED <<href_list, pc, data, requests, responses, order>>
    /\ UNCHANGED outsideResolve

\* a task has raised: gather (return_exceptions=False) propagates the first
\* exception to the awaiting get_href_list; the other tasks are not cancelled
GatherRaise ==
    /\ gpc = "running"
    /\ \E i \in Slots : pc[i] = "failed"
    /\ gpc' = "raised"
    /\ UNCHANGED <<href_list, pc, data, requests, responses, order, result>>
    /\ UNCHANGED outsideResolve

ResolveNext ==
    \/ Dispatch
    \/ \E i \in Slots : Respond1(i)
    \/ \E i \in Slots : Respond2(i)
    \/ \E i \in Slots : Fail(i)
    \/ GatherReturn
    \/ GatherRaise


(***************************************************************************)
(* ---------------- Paginated fetcher ------------------------------------ *)
(* get_collection (nadag_api.py 293-349).                                  *)
(***************************************************************************)
ItemsUrl == "items?f=json"     \* URL.format(collection=collection), line 309
NextHrefs == {"next1", "next2"}
CRS == "25833"                 \* cfg["global"]["crs_default"]

\* params of line 314-319: filter-lang, filter, crs, limit
FilterParams == <<"filter-lang", "filter", "crs", "limit">>

Features == {"f1", "f2"}
FeatureLists == {<<>>, <<"f1">>, <<"f2">>, <<"f2", "f1">>}

SelfLink == [rel |-> "self", href |-> "self"]
NextLink(h) == [rel |-> "next", href |-> h]
\* the "links" arrays a server answers with
LinkLists ==
    { <<>>, <<SelfLink>>,
      <<NextLink("next1")>>, <<SelfLink, NextLink("next2")>>,
      <<NextLink("next2"), SelfLink>>, <<NextLink("next1"), NextLink("next2")>> }

\* the decoded bodies of successful responses: data["features"], data["links"]
Pages == [features : FeatureLists, links : LinkLists]

NotReturned == [returned |-> FALSE, rows |-> <<>>, crs |-> "None"]
\* gpd.GeoDataFrame(), line 347: no rows, no columns, no crs
EmptyGeoDataFrame == [returned |-> TRUE, rows |-> <<>>, crs |-> "None"]
\* gpd.GeoDataFrame.from_features(data_list, crs=CRS), line 349: one row per feature
FromFeatures(fs) ==
    [returned |-> TRUE, rows |-> [k \in 1..Len(fs) |-> [feature |-> fs[k]]], crs |-> CRS]

\* faulty variant of RequestParams: the filter is sent with every request
RequestParams_always(n) == FilterParams

\* line 328: requests.get(url, params if cont == 1 else None)
RequestParams(n) == IF n = 1 THEN FilterParams ELSE NoParams

\* line 339: links_rel = list(map(lambda x: x.get("rel"), data["links"]))
links_rel(page) == [k \in 1..Len(page.links) |-> page.links[k].rel]

\* line 340: "next" in links_rel
HasNext(page) == \E k \in 1..Len(page.links) : links_rel(page)[k] = "next"

\* line 341: list(filter(lambda x: x.get("rel") == "next", data["links"]))[0]["href"]
NextUrl(page) == SelectSeq(page.links, LAMBDA x : x.rel = "next")[1].href

\* faulty variant of ContinueAfter: the loop goes on after every page
ContinueAfter_always(page) == TRUE

\* lines 340-344: next_page after a page
ContinueAfter(page) == HasNext(page)

\* faulty variant of PageFailure: the loop is left and what was accumulated is returned
PageFailure_partial(acc) == [pc |-> "returned", value |-> FromFeatures(acc)]

\* lines 330-336: response.raise_for_status() raises, or the exception of
\* response.json() is re-raised; nothing is returned
PageFailure(acc) == [pc |-> "raised", value |-> NotReturned]

\* faulty variant of Finish: an empty accumulation is reported as an error
Finish_raiseEmpty(acc) ==
    IF Len(acc) = 0 THEN [pc |-> "raised", value |-> NotReturned]
    ELSE [pc |-> "returned", value |-> FromFeatures(acc)]

\* lines 346-349
Finish(acc) ==
    IF Len(acc) = 0 THEN [pc |-> "returned", value |-> EmptyGeoDataFrame]
    ELSE [pc |-> "returned", value |-> FromFeatures(acc)]

\* the state on entering the while loop (lines 309-324)
FetchInit ==
    /\ url = ItemsUrl
    /\ cont = 0
    /\ next_page = TRUE
    /\ data_list = <<>>
    /\ fetch_requests = <<>>
    /\ pages = <<>>
    /\ failure = "none"
    /\ fpc = "loop"
    /\ fetched = NotReturned

FetchIdle ==
    /\ url = ItemsUrl /\ cont = 0 /\ next_page = FALSE /\ data_list = <<>>
    /\ fetch_requests = <<>> /\ pages = <<>> /\ failure = "none"
    /\ fpc = "idle" /\ fetched = NotReturned

\* the GET of one loop iteration (lines 327-328)
SendRequest ==
    /\ fpc = "loop" /\ next_page
    /\ cont < MaxPages
    /\ cont' = cont + 1
    /\ fetch_requests' = Append(fetch_requests, [url |-> url, params |-> RequestParams(cont')])

\* one loop iteration whose response is a success with a decodable body
\* (lines 327-345)
PageOk ==
    /\ SendRequest
    /\ \E page \in Pages :
        /\ pages' = Append(pages, page)
        /\ url' = IF HasNext(page) THEN NextUrl(page) ELSE url
        /\ next_page' = ContinueAfter(page)
        /\ data_list' = data_list \o page.features
    /\ UNCHANGED <<failure, fpc, fetched>>
    /\ UNCHANGED outsideFetch

\* one loop iteration whose response has a non-success status (line 330)
PageHttpError ==
    /\ SendRequest
    /\ failure' = "status"
    /\ fpc' = PageFailure(data_list).pc
    /\ fetched' = PageFailure(data_list).value
    /\ UNCHANGED <<url, next_page, data_list, pages>>
    /\ UNCHANGED outsideFetch

\* one loop iteration whose response body is not JSON (lines 331-336)
PageUndecodable ==
    /\ SendRequest
    /\ failure' = "body"
    /\ fpc' = PageFailure(data_list).pc
    /\ fetched' = PageFailure(data_list).value
    /\ UNCHANGED <<url, next_page, data_list, pages>>
    /\ UNCHANGED outsideFetch

\* the loop has ended (lines 346-349)
FetchReturn ==
    /\ fpc = "loop" /\ ~next_page
    /\ fpc' = Finish(data_list).pc
    /\ fetched' = Finish(data_list).value
    /\ UNCHANGED <<url, cont, next_page, data_list, fetch_requests, pages, failure>>
    /\ UNCHANGED outsideFetch

FetchNext ==
    \/ PageOk
    \/ PageHttpError
    \/ PageUndecodable
    \/ FetchReturn

(***************************************************************************)
(* ---------------- Interval-flag scan ----------------------------------- *)
(* create_flagged_column (nadag_api.py 700-720),                           *)
(* create_intervals_from_comments (723-785), flag_codes (config 71-80).    *)
(* A Python string of digits is the sequence of its digits: "11" is        *)
(* <<1, 1>>, "" is <<>>.                                                   *)
(***************************************************************************)
\* the values a comment_code cell holds
NaN == [kind |-> "nan", num |-> 0, text |-> <<>>]      \* None / NaN
Num(n) == [kind |-> "num", num |-> n, text |-> <<>>]   \* an int, or a whole float
Str(t) == [kind |-> "str", num |-> 0, text |-> t]      \* a string

RECURSIVE Digits(_)
\* str(int(value)) of a number >= 0
Digits(n) == IF n < 10 THEN <<n>> ELSE Digits(n \div 10) \o <<n % 10>>

\* lines 748-753
format_comment_value(value) ==
    IF value.kind = "nan" THEN <<>>
    ELSE IF value.kind = "num" THEN Digits(value.num)
    ELSE value.text

\* Python's `t in s` on strings
IsSubstring(t, s) ==
    \E k \in 0..(Len(s) - Len(t)) : SubSeq(s, k + 1, k + Len(t)) = t

\* cfg["nadag"]["flag_codes"], config/__init__.py 71-80
flag_codes ==
    [hammering_starts |-> << <<1, 1>>, <<1, 5>>, <<6, 3>> >>,
     hammering_ends |-> << <<1, 6>>, <<6, 4>> >>,
     increased_rotation_rate_starts |-> << <<5, 1>> >>,
     increased_rotation_rate_ends |-> << <<5, 2>> >>,
     flushing_starts |-> << <<1, 4>>, <<6, 3>> >>,
     flushing_ends |-> << <<6, 2>>, <<6, 4>> >>]

\* line 740
interval_types == <<"hammering", "increased_rotation_rate", "flushing">>

\* line 770: base_col_name + "_starts"
start_event_col_name(base_col_name) ==
    CASE base_col_name = "hammering" -> "hammering_starts"
      [] base_col_name = "increased_rotation_rate" -> "increased_rotation_rate_starts"
      [] base_col_name = "flushing" -> "flushing_starts"

\* line 771: base_col_name + "_ends"
end_event_col_name(base_col_name) ==
    CASE base_col_name = "hammering" -> "hammering_ends"
      [] base_col_name = "increased_rotation_rate" -> "increased_rotation_rate_ends"
      [] base_col_name = "flushing" -> "flushing_ends"

\* a DataFrame: its column labels and its rows in index order
Frame(columns, rows) == [columns |-> columns, rows |-> rows]
HasColumn(df, name) == \E k \in 1..Len(df.columns) : df.columns[k] = name

\* lines 764-767: the event column of one flag_codes entry
EventColumn(comment_code_str, target_codes) ==
    [i \in 1..Len(comment_code_str) |->
        \E k \in 1..Len(target_codes) :
            IsSubstring(target_codes[k], comment_code_str[i])]

\* lines 774-777: an event column missing from the configuration is all False
EventColumnOf(comment_code_str, event_col_name) ==
    IF event_col_name \in DOMAIN flag_codes
    THEN EventColumn(comment_code_str, flag_codes[event_col_name])
    ELSE [i \in 1..Len(comment_code_str) |-> FALSE]

\* faulty variant of StepActive: the start code is tested before the end code
StepActive_startFirst(current_is_active, is_start, is_end) ==
    IF is_start THEN TRUE
    ELSE IF is_end THEN FALSE
    ELSE current_is_active

\* faulty variant of StepActive: the flag is cleared one row late (the row is written
\* before the end code is applied)
StepActive_lateEnd(current_is_active, is_start, is_end) ==
    IF is_end THEN current_is_active
    ELSE IF is_start THEN TRUE
    ELSE current_is_active

\* lines 713-716: the new current_is_active at one row
StepActive(current_is_active, is_start, is_end) ==
    IF is_end THEN FALSE
    ELSE IF is_start THEN TRUE
    ELSE current_is_active

RECURSIVE ScanFrom(_, _, _, _)
\* lines 712-718: the loop over df.index from row i on
ScanFrom(col_start, col_end, i, current_is_active) ==
    IF i > Len(col_start) THEN <<>>
    ELSE LET active == StepActive(current_is_active, col_start[i], col_end[i])
         IN <<active>> \o ScanFrom(col_start, col_end, i + 1, active)

\* lines 700-720
create_flagged_column(col_start_bool_series, col_end_bool_series) ==
    ScanFrom(col_start_bool_series, col_end_bool_series, 1, FALSE)

\* line 755: df["comment_code_str"]
comment_code_str(df) ==
    [i \in 1..Len(df.rows) |-> format_comment_value(df.rows[i].comment_code)]

\* faulty variant of FlagColumn: every flag is scanned from the hammering events
FlagColumn_coupled(df, base_col_name) ==
    create_flagged_column(
        EventColumnOf(comment_code_str(df), "hammering_starts"),
        EventColumnOf(comment_code_str(df), "hammering_ends"))

\* lines 769-783: the flag column of one interval type
FlagColumn(df, base_col_name) ==
    create_flagged_column(
        EventColumnOf(comment_code_str(df), start_event_col_name(base_col_name)),
        EventColumnOf(comment_code_str(df), end_event_col_name(base_col_name)))

\* lines 723-785: the three flag columns, by name
create_intervals_from_comments(df) ==
    IF ~HasColumn(df, "comment_code")
    THEN [c \in {interval_types[k] : k \in 1..Len(interval_types)} |->
            [i \in 1..Len(df.rows) |-> FALSE]]
    ELSE [c \in {interval_types[k] : k \in 1..Len(interval_types)} |->
            FlagColumn(df, c)]

\* the comment codes the scan is run on
CommentValues ==
    {NaN, Str(<<1, 1>>), Str(<<1, 6>>), Str(<<1, 1, 6>>), Num(63), Num(64), Num(52)}

\* a sounding row: its depth and its comment code
Row(depth, code) == [depth |-> depth, comment_code |-> code]

\* frames sorted by depth with a dense 0-based index (get_soundings, 156-160),
\* with and without a comment_code column
FlagInputs ==
    {Frame(<<"depth", "comment_code">>, [i \in 1..Len(cs) |-> Row(i, cs[i])]) :
        cs \in SeqsUpTo(CommentValues, MaxRows)}
    \cup {Frame(<<"depth">>, [i \in 1..n |-> Row(i, NaN)]) : n \in 0..MaxRows}

FlagsInit ==
    /\ input_df \in FlagInputs
    /\ interval_flags = <<>>
    /\ flpc = "called"

FlagsIdle ==
    /\ input_df = Frame(<<>>, <<>>) /\ interval_flags = <<>> /\ flpc = "idle"

\* create_intervals_from_comments(input_df) runs and returns df[interval_types]
ScanComments ==
    /\ flpc = "called"
    /\ interval_flags' = create_intervals_from_comments(input_df)
    /\ flpc' = "returned"
    /\ UNCHANGED input_df
    /\ UNCHANGED outsideFlags

FlagsNext == ScanComments

(***************************************************************************)
(* ---------------- Sounding normalizer ---------------------------------- *)
(* The loop of get_soundings (nadag_api.py 136-175) over the resolved      *)
(* observation documents ks_data; column_mapper_borehole (config 22-41).   *)
(* DataFrames are objects: new_elem and the entries of ks_data_df are      *)
(* references into heap, so that a table appended twice is one object.     *)
(***************************************************************************)
Methods == {"rp", "tot", "cpt"}

\* cfg["nadag"]["column_mapper_borehole"], in the order of the dict
COLUMN_MAPPER_BH ==
    << <<"anvendtlast", "penetration_force">>,
       <<"boretlengde", "depth">>,
       <<"dreiemoment", "rotation_moment">>,
       <<"kombinasjonsondering", "method_id">>,
       <<"trykksondering", "method_id">>,
       <<"statisksondering", "method_id">>,
       <<"nedpressinghastighet", "penetration_rate">>,
       <<"nedpressingtrykk", "qc">>,
       <<"friksjon", "fs">>,
       <<"poretrykk", "u2">>,
       <<"nedpressingtid", "penetration_time">>,
       <<"observasjonkode", "comment_code">>,
       <<"observasjonmerknad", "comment">>,
       <<"rotasjonhastighet", "rotation_rate">>,
       <<"slagfrekvens", "hammering_rate">>,
       <<"spylemengde", "flushing_flow">>,
       <<"spyletrykk", "flushing_pressure">> >>

\* COLUMN_MAPPER_BH.values()
MapperValues == [k \in 1..Len(COLUMN_MAPPER_BH) |-> COLUMN_MAPPER_BH[k][2]]

\* str.lower() on the property keys of the model
Lower(name) ==
    CASE name = "boretLengde" -> "boretlengde"
      [] name = "observasjonKode" -> "observasjonkode"
      [] name = "anvendtLast" -> "anvendtlast"
      [] OTHER -> name

\* DataFrame.rename(columns=COLUMN_MAPPER_BH) on one label
Rename(name) ==
    IF \E k \in 1..Len(COLUMN_MAPPER_BH) : COLUMN_MAPPER_BH[k][1] = name
    THEN COLUMN_MAPPER_BH[CHOOSE k \in 1..Len(COLUMN_MAPPER_BH) :
                                COLUMN_MAPPER_BH[k][1] = name][2]
    ELSE name

Count(seq, x) == Cardinality({k \in 1..Len(seq) : seq[k] = x})

NoFlags == [c \in {"hammering", "increased_rotation_rate", "flushing"} |-> <<>>]

\* a table: column labels, rows in index order, and the three flag columns
Table(columns, rows, flags) == [columns |-> columns, rows |-> rows, flags |-> flags]

\* lines 139 and 145: pd.DataFrame(columns=COLUMN_MAPPER_BH.values())
CanonicalEmpty == Table(MapperValues, <<>>, NoFlags)

\* the resolved documents: None, or the properties of the features
NoneItem == [isNone |-> TRUE, keys |-> <<>>, rows |-> <<>>]
Item(keys, rows) == [isNone |-> FALSE, keys |-> keys, rows |-> rows]

KeyLists ==
    { <<"boretLengde", "observasjonKode", "anvendtLast">>,
      <<"boretLengde", "anvendtLast">>,
      <<"observasjonKode", "anvendtLast">> }
RowLists ==
    { <<Row(2, Str(<<1, 1>>)), Row(1, NaN)>>,
      <<Row(1, Str(<<1, 6>>))>>,
      <<Row(1, Str(<<1, 1>>)), Row(1, Num(64))>> }
Items ==
    {NoneItem, Item(<<>>, <<>>)} \cup {Item(k, r) : k \in KeyLists, r \in RowLists}

\* lines 141-143 and 147-148: data = pd.DataFrame.from_dict(properties), with
\* the alpha column of a cpt document
DataOf(item, m) ==
    Table(IF m = "cpt" THEN Append(item.keys, "alpha") ELSE item.keys,
          item.rows, NoFlags)

\* lines 151-154: the observasjonKode column is added when missing, the labels
\* are lower-cased
LoweredColumns(columns) ==
    LET withCode == IF \E k \in 1..Len(columns) : columns[k] = "observasjonKode"
                    THEN columns ELSE Append(columns, "observasjonKode")
    IN [k \in 1..Len(withCode) |-> Lower(withCode[k])]

\* line 157: the labels after rename(columns=COLUMN_MAPPER_BH)
RenamedColumns(columns) ==
    [k \in 1..Len(LoweredColumns(columns)) |-> Rename(LoweredColumns(columns)[k])]

\* lines 150-161: sort_values(by="depth") raises when no label, or more than
\* one, is "depth"; the except clause catches it
TryRaises(df) == Count(RenamedColumns(df.columns), "depth") # 1

\* line 158: the orders sort_values(by="depth") may leave the rows in (rows of
\* equal depth in either order)
SortedByDepth(rows) ==
    {[k \in 1..Len(rows) |-> rows[p[k]]] :
        p \in {q \in [1..Len(rows) -> 1..Len(rows)] :
                /\ \A a, b \in 1..Len(rows) : a # b => q[a] # q[b]
                /\ \A a, b \in 1..Len(rows) :
                    a < b => rows[q[a]].depth <= rows[q[b]].depth}}

\* rows of a document that has no observasjonKode key get None codes (line 152)
WithCodes(df) ==
    IF \E k \in 1..Len(df.columns) : df.columns[k] = "observasjonKode"
    THEN df.rows
    ELSE [k \in 1..Len(df.rows) |-> Row(df.rows[k].depth, NaN)]

\* faulty variant of FlagsFor: the flags are derived for every method
FlagsFor_derivedAlways(m, df) == create_intervals_from_comments(df)

\* lines 167-170: the value assigned to the three flag columns
FlagsFor(m, df) ==
    IF m = "tot" THEN create_intervals_from_comments(df)
    ELSE [c \in {"hammering", "increased_rotation_rate", "flushing"} |->
            [k \in 1..Len(df.rows) |-> FALSE]]

\* new_elem[["hammering", "increased_rotation_rate", "flushing"]] = ...:
\* the columns are added when missing, their values replaced
AssignFlags(df, flags) ==
    Table(df.columns \o SelectSeq(interval_types, LAMBDA c : ~HasColumn(df, c)),
          df.rows, flags)

Unbound == 0    \* new_elem before its first assignment

\* the tables get_soundings hands back, by position
OutputTables == [k \in 1..Len(ks_data_df) |-> heap[ks_data_df[k]]]

NormInit ==
    /\ method \in Methods
    /\ ks_data \in SeqsUpTo(Items, MaxDocs)
    /\ ii = 0
    /\ new_elem = Unbound
    /\ heap = <<>>
    /\ ks_data_df = <<>>
    /\ npc = "loop"

NormIdle ==
    /\ method = "rp" /\ ks_data = <<>> /\ ii = 0 /\ new_elem = Unbound
    /\ heap = <<>> /\ ks_data_df = <<>> /\ npc = "idle"

\* a new DataFrame object becomes new_elem and is appended (line 173)
AppendNew(table) ==
    /\ heap' = Append(heap, table)
    /\ new_elem' = Len(heap) + 1
    /\ ks_data_df' = Append(ks_data_df, Len(heap) + 1)
    /\ ii' = ii + 1
    /\ UNCHANGED <<method, ks_data, npc>>

\* the document is None (lines 138-139)
NormNone ==
    /\ npc = "loop" /\ ii < Len(ks_data)
    /\ ks_data[ii + 1].isNone
    /\ AppendNew(CanonicalEmpty)
    /\ UNCHANGED outsideNorm

\* the document has no features (lines 141-145)
NormEmpty ==
    /\ npc = "loop" /\ ii < Len(ks_data)
    /\ ~ks_data[ii + 1].isNone /\ Len(ks_data[ii + 1].rows) = 0
    /\ AppendNew(CanonicalEmpty)
    /\ UNCHANGED outsideNorm

\* the try block succeeds: the renamed, sorted table gets its flags (146-173)
NormOk ==
    /\ npc = "loop" /\ ii < Len(ks_data)
    /\ ~ks_data[ii + 1].isNone /\ Len(ks_data[ii + 1].rows) > 0
    /\ LET df == DataOf(ks_data[ii + 1], method) IN
        /\ ~TryRaises(df)
        /\ \E rows \in SortedByDepth(WithCodes(df)) :
            LET renamed == Table(RenamedColumns(df.columns), rows, NoFlags)
            IN AppendNew(AssignFlags(renamed, FlagsFor(method, renamed)))
    /\ UNCHANGED outsideNorm

\* the try block raises and the except clause prints (150-165); new_elem still
\* refers to the table of an earlier document: the flags are assigned to that
\* object and it is appended once more (167-173)
NormFailStale ==
    /\ npc = "loop" /\ ii < Len(ks_data)
    /\ ~ks_data[ii + 1].isNone /\ Len(ks_data[ii + 1].rows) > 0
    /\ TryRaises(DataOf(ks_data[ii + 1], method))
    /\ new_elem # Unbound
    /\ heap' = [heap EXCEPT ![new_elem] =
                    AssignFlags(heap[new_elem], FlagsFor(method, heap[new_elem]))]
    /\ ks_data_df' = Append(ks_data_df, new_elem)
    /\ ii' = ii + 1
    /\ UNCHANGED <<method, ks_data, new_elem, npc>>
    /\ UNCHANGED outsideNorm

\* the try block raises in the first iteration that reaches it: new_elem was
\* never assigned, line 168 / 170 raises UnboundLocalError out of get_soundings
NormFailUnbound ==
    /\ npc = "loop" /\ ii < Len(ks_data)
    /\ ~ks_data[ii + 1].isNone /\ Len(ks_data[ii + 1].rows) > 0
    /\ TryRaises(DataOf(ks_data[ii + 1], method))
    /\ new_elem = Unbound
    /\ npc' = "raised"
    /\ UNCHANGED <<method, ks_data, ii, new_elem, heap, ks_data_df>>
    /\ UNCHANGED outsideNorm

\* the loop is over: return ks_data_df (line 175)
NormReturn ==
    /\ npc = "loop" /\ ii = Len(ks_data)
    /\ npc' = "returned"
    /\ UNCHANGED <<method, ks_data, ii, new_elem, heap, ks_data_df>>
    /\ UNCHANGED outsideNorm

NormNext ==
    \/ NormNone
    \/ NormEmpty
    \/ NormOk
    \/ NormFailStale
    \/ NormFailUnbound
    \/ NormReturn

(***************************************************************************)
(* ---------------- The column steps of the normalizer ------------------- *)
(* Lines 151-157 of get_soundings as a function of the column labels: add  *)
(* "observasjonKode" when no label is exactly that, lower-case the labels, *)
(* rename by COLUMN_MAPPER_BH. ColumnSteps runs them over a table once     *)
(* more, so that the second pass sees labels that are already renamed.     *)
(***************************************************************************)
MaxCols == 3          \* most columns of a table given to the column steps
MaxPasses == 2        \* most often the column steps are run over one table

\* property keys as NADAG names them, and their names after the rename
RawLabels == {"boretLengde", "observasjonKode", "anvendtLast"}
RenamedLabels == {"depth", "comment_code", "penetration_force"}

\* the tables: distinct labels, raw or renamed
ColumnLists ==
    {c \in SeqsUpTo(RawLabels \cup RenamedLabels, MaxCols) :
        \A a, b \in 1..Len(c) : a # b => c[a] # c[b]}

ColumnsInit ==
    /\ labels \in ColumnLists
    /\ passes = 0
    /\ label_history = <<labels>>

ColumnsIdle ==
    /\ labels = <<>> /\ passes = 0 /\ label_history = <<>>

\* lines 151-157 once over the table
ColumnSteps ==
    /\ passes < MaxPasses
    /\ labels' = RenamedColumns(labels)
    /\ passes' = passes + 1
    /\ label_history' = Append(label_history, RenamedColumns(labels))
    /\ UNCHANGED outsideColumns

ColumnsNext ==
    \/ ColumnSteps

(***************************************************************************)
(* ---------------- Representative sample depth -------------------------- *)
(* _get_sample_depth (nadag_api.py 504-516) over the values a row can      *)
(* carry: a number, float nan, Python None, or a text. Only the addition   *)
(* of line 513 sits in the try; the comparison of line 505 does not.       *)
(***************************************************************************)
MaxDepthValue == 6    \* largest depth_top / depth_base of the model

PyNone == [kind |-> "none", num |-> 0, text |-> <<>>]      \* Python None
TypeError == [kind |-> "TypeError", num |-> 0, text |-> <<>>]

\* (a + b) / 2 of two numbers, kept as a quotient
Quotient(n, d) == [kind |-> "quotient", num |-> n, den |-> d]

DepthTexts == {Str(<<5>>), Str(<<0>>)}
DepthValues ==
    {NaN, PyNone} \cup {Num(n) : n \in 0..MaxDepthValue} \cup DepthTexts

\* s > t of two str: the first differing character decides
TextGreater(s, t) ==
    \E k \in 1..Len(s) :
        /\ k - 1 <= Len(t)
        /\ \A j \in 1..(k - 1) : s[j] = t[j]
        /\ (k > Len(t) \/ s[k] > t[k])

\* a > b raises TypeError unless both are floats/ints or both are str
Orderable(a, b) ==
    \/ a.kind \in {"num", "nan"} /\ b.kind \in {"num", "nan"}
    \/ a.kind = "str" /\ b.kind = "str"

\* a > b where it is defined: nan compares False with everything
GreaterThan(a, b) ==
    CASE a.kind = "num" /\ b.kind = "num" -> a.num > b.num
      [] a.kind = "str" /\ b.kind = "str" -> TextGreater(a.text, b.text)
      [] OTHER -> FALSE

\* a == b: nan is not equal to itself
PyEquals(a, b) == a.kind # "nan" /\ a = b

\* pd.isna
IsNa(a) == a.kind \in {"nan", "none"}

\* lines 504-516; TypeError stands for the exception leaving the function
get_sample_depth(top, base) ==
    IF ~Orderable(top, base) THEN TypeError
    ELSE IF GreaterThan(top, base) /\ PyEquals(base, Num(0)) THEN top
    ELSE IF IsNa(base) /\ ~IsNa(top) THEN top
    ELSE IF PyEquals(top, base) THEN top
    ELSE IF top.kind = "num" /\ base.kind = "num"
         THEN Quotient(top.num + base.num, 2)
    ELSE NaN

DepthInit ==
    /\ depth_top \in DepthValues
    /\ depth_base \in DepthValues
    /\ depth_out = NaN
    /\ dpc = "called"

DepthIdle ==
    /\ depth_top = NaN /\ depth_base = NaN /\ depth_out = NaN /\ dpc = "idle"

\* the call returns (line 516)
DepthReturn ==
    /\ dpc = "called"
    /\ get_sample_depth(depth_top, depth_base) # TypeError
    /\ depth_out' = get_sample_depth(depth_top, depth_base)
    /\ dpc' = "returned"
    /\ UNCHANGED <<depth_top, depth_base>>
    /\ UNCHANGED outsideDepth

\* the comparison of line 505 raises
DepthRaise ==
    /\ dpc = "called"
    /\ get_sample_depth(depth_top, depth_base) = TypeError
    /\ dpc' = "raised"
    /\ UNCHANGED <<depth_top, depth_base, depth_out>>
    /\ UNCHANGED outsideDepth

DepthNext ==
    \/ DepthReturn
    \/ DepthRaise

(***************************************************************************)
(* ---------------- Soil classification of a group ----------------------- *)
(* get_samples line 461 (str(x).lower() over layer_composition) followed   *)
(* by _clf_aggr (519-527), which aggregate_samples (552) applies to each   *)
(* group. Texts are sequences of characters.                               *)
(***************************************************************************)
MaxGroup == 3         \* most rows of one group

\* QCL_KWD (line 24)
QCL_KWD ==
    << <<"q", "u", "i", "c", "k">>,
       <<"k", "v", "i", "k", "k">>,
       <<"s", "p", "r", "ø", "b", "r", "u", "d", "d">> >>

\* the values a layer_composition cell holds before line 461
CompositionValues ==
    { Str(<<"L", "e", "i", "r", "e">>),
      Str(<<"K", "v", "i", "k", "k", "l", "e", "i", "r", "e">>),
      Str(<<"Q", "U", "I", "C", "K">>),
      Str(<<"S", "p", "r", "ø", "b", "r", "u", "d", "d">>),
      Str(<<"S", "a", "n", "d">>),
      Str(<<"G", "r", "u", "s">>),
      Str(<<"n", "a", "n">>),
      Str(<<"n", "o", "n", "e">>),
      Str(<<"N", "a", "N">>),
      NaN, PyNone }

\* str(x)
PyStr(x) ==
    CASE x.kind = "none" -> <<"N", "o", "n", "e">>
      [] x.kind = "nan" -> <<"n", "a", "n">>
      [] OTHER -> x.text

\* str.lower() on one character of the model's texts
LowerChar(c) ==
    CASE c = "C" -> "c" [] c = "G" -> "g" [] c = "I" -> "i" [] c = "K" -> "k"
      [] c = "L" -> "l" [] c = "N" -> "n" [] c = "Q" -> "q" [] c = "S" -> "s"
      [] c = "U" -> "u"
      [] OTHER -> c

\* str.lower()
LowerText(s) == [k \in 1..Len(s) |-> LowerChar(s[k])]

\* faulty variant of lower_composition: the text is not lower-cased
lower_composition_asIs(x) == PyStr(x)

\* line 461: lambda x: str(x).lower()
lower_composition(x) == LowerText(PyStr(x))

\* x.unique(): the distinct values of the group
Unique(x) == {x[k] : k \in 1..Len(x)}

\* lines 519-527
clf_aggr(x) ==
    IF \A vv \in Unique(x) : vv \in {<<"n", "a", "n">>, <<"n", "o", "n", "e">>}
    THEN "nothing"
    ELSE IF \E xx \in Unique(x) :
                \E k \in 1..Len(QCL_KWD) : IsSubstring(QCL_KWD[k], LowerText(xx))
         THEN "quick_clay"
         ELSE "other"

ClassifyInit ==
    /\ raw_composition \in SeqsUpTo(CompositionValues, MaxGroup)
    /\ layer_composition = <<>>
    /\ classification = "unset"
    /\ clpc = "merged"

ClassifyIdle ==
    /\ raw_composition = <<>> /\ layer_composition = <<>>
    /\ classification = "unset" /\ clpc = "idle"

\* line 461
LowerComposition ==
    /\ clpc = "merged"
    /\ layer_composition' =
        [k \in 1..Len(raw_composition) |-> lower_composition(raw_composition[k])]
    /\ clpc' = "lowered"
    /\ UNCHANGED <<raw_composition, classification>>
    /\ UNCHANGED outsideClassify

\* line 552: the group's layer_composition goes through _clf_aggr
ClassifyGroup ==
    /\ clpc = "lowered"
    /\ classification' = clf_aggr(layer_composition)
    /\ clpc' = "classified"
    /\ UNCHANGED <<raw_composition, layer_composition>>
    /\ UNCHANGED outsideClassify

ClassifyNext ==
    \/ LowerComposition
    \/ ClassifyGroup

(***************************************************************************)
(* ---------------- The sample builder ----------------------------------- *)
(* get_samples (nadag_api.py 405-501). An investigation's reference leads  *)
(* to a series document, each series record to a segment document, each    *)
(* segment record (when it has harData) to a data document. The link       *)
(* resolutions are taken as answered (their failure is the resolver's      *)
(* GatherRaise); every group of the aggregation has one row.               *)
(***************************************************************************)
MaxBatch == 2         \* most investigations of one batch

\* an investigation without sample series: the cell is null
NoRef == [kind |-> "null", series |-> 0, segments |-> 0, harData |-> FALSE,
          rows |-> <<>>]

\* a reference; what the documents behind it hold: series records, segment
\* records per series, whether a segment has harData, the data records
Ref(series, segments, harData, rows) ==
    [kind |-> "ref", series |-> series, segments |-> segments,
     harData |-> harData, rows |-> rows]

\* a data record: fraLengde and tilLengde
DataRecord(top, base) == [depth_top |-> top, depth_base |-> base]
DataRecords == {DataRecord(Num(5), Num(0)), DataRecord(Num(3), NaN)}

Refs ==
    {Ref(0, 0, FALSE, <<>>), Ref(1, 0, FALSE, <<>>), Ref(1, 1, FALSE, <<>>),
     Ref(1, 1, TRUE, <<>>)}
        \cup {Ref(1, 1, TRUE, <<r>>) : r \in DataRecords}

\* gpd.GeoDataFrame or None
NoFrame == [isNone |-> TRUE, rows |-> <<>>]
GeoFrame(rows) == [isNone |-> FALSE, rows |-> rows]

SamplesInit ==
    /\ ps_column \in BOOLEAN
    /\ base_column \in BOOLEAN
    /\ ps \in SeqsUpTo(Refs \cup {NoRef}, MaxBatch)
    /\ Len(ps) >= 1
    /\ ~ps_column => \A i \in 1..Len(ps) : ps[i] = NoRef
    /\ bh = <<>>
    /\ sample_info = <<>>
    /\ sample_data_general_dict = <<>>
    /\ sample_data = <<>>
    /\ samples_gdf = NoFrame
    /\ sample_error = "none"
    /\ spc = "called"

SamplesIdle ==
    /\ ps_column = FALSE /\ base_column = FALSE /\ ps = <<>> /\ bh = <<>>
    /\ sample_info = <<>> /\ sample_data_general_dict = <<>>
    /\ sample_data = <<>> /\ samples_gdf = NoFrame
    /\ sample_error = "none" /\ spc = "idle"

\* line 409: the investigations whose ps is not null, in order
RECURSIVE DropNa(_, _)
DropNa(refs, i) ==
    IF i > Len(refs) THEN <<>>
    ELSE IF refs[i] = NoRef THEN DropNa(refs, i + 1)
    ELSE <<i>> \o DropNa(refs, i + 1)

\* line 421: the records of the features of the series documents
SeriesRecords(kept) ==
    Concat([k \in 1..Len(kept) |->
              [n \in 1..ps[kept[k]].series |-> kept[k]]])

\* line 429: the records of the features of the segment documents
SegmentRecords(series) ==
    Concat([k \in 1..Len(series) |->
              [n \in 1..ps[series[k]].segments |-> series[k]]])

\* line 438: the records of the features of the data documents
DataRecordsOf(segments) ==
    Concat([k \in 1..Len(segments) |->
              [n \in 1..Len(ps[segments[k]].rows) |->
                  [inv |-> segments[k],
                   depth_top |-> ps[segments[k]].rows[n].depth_top,
                   depth_base |-> ps[segments[k]].rows[n].depth_base]]])

\* lines 406-408: no ps column, the call returns None
SamplesNoColumn ==
    /\ spc = "called" /\ ~ps_column
    /\ samples_gdf' = NoFrame
    /\ spc' = "returned"
    /\ UNCHANGED <<ps_column, base_column, ps, bh, sample_info,
                   sample_data_general_dict, sample_data, sample_error>>
    /\ UNCHANGED outsideSamples

\* lines 409-424: the series documents are resolved and give sample_df
SamplesSeries ==
    /\ spc = "called" /\ ps_column
    /\ SeriesRecords(DropNa(ps, 1)) # <<>>
    /\ bh' = DropNa(ps, 1)
    /\ sample_info' = SeriesRecords(DropNa(ps, 1))
    /\ spc' = "series"
    /\ UNCHANGED <<ps_column, base_column, ps, sample_data_general_dict,
                   sample_data, samples_gdf, sample_error>>
    /\ UNCHANGED outsideSamples

\* lines 421-423: without series records sample_df = pd.DataFrame([]) has no
\* column identifikasjon, and sample_df.identifikasjon raises
SamplesSeriesRaise ==
    /\ spc = "called" /\ ps_column
    /\ SeriesRecords(DropNa(ps, 1)) = <<>>
    /\ bh' = DropNa(ps, 1)
    /\ sample_error' = "AttributeError"
    /\ spc' = "raised"
    /\ UNCHANGED <<ps_column, base_column, ps, sample_info,
                   sample_data_general_dict, sample_data, samples_gdf>>
    /\ UNCHANGED outsideSamples

\* lines 426-432: the segment documents are resolved
SamplesSegments ==
    /\ spc = "series"
    /\ SegmentRecords(sample_info) # <<>>
    /\ sample_data_general_dict' = SegmentRecords(sample_info)
    /\ spc' = "segments"
    /\ UNCHANGED <<ps_column, base_column, ps, bh, sample_info, sample_data,
                   samples_gdf, sample_error>>
    /\ UNCHANGED outsideSamples

\* lines 429-431: without segment records the frame has no column
\* tilhørerPrøveserie
SamplesSegmentsRaise ==
    /\ spc = "series"
    /\ SegmentRecords(sample_info) = <<>>
    /\ sample_error' = "KeyError"
    /\ spc' = "raised"
    /\ UNCHANGED <<ps_column, base_column, ps, bh, sample_info,
                   sample_data_general_dict, sample_data, samples_gdf>>
    /\ UNCHANGED outsideSamples

\* lines 435-441: the data documents are resolved
SamplesData ==
    /\ spc = "segments"
    /\ \A k \in 1..Len(sample_data_general_dict) :
        ps[sample_data_general_dict[k]].harData
    /\ DataRecordsOf(sample_data_general_dict) # <<>>
    /\ sample_data' = DataRecordsOf(sample_data_general_dict)
    /\ spc' = "data"
    /\ UNCHANGED <<ps_column, base_column, ps, bh, sample_info,
                   sample_data_general_dict, samples_gdf, sample_error>>
    /\ UNCHANGED outsideSamples

\* line 438: a segment without harData has href None, its document is None
\* and p["features"] raises TypeError; lines 438-440: without data records
\* the frame has no column tilhørerPrøveseriedel
SamplesDataRaise ==
    /\ spc = "segments"
    /\ \/ /\ \E k \in 1..Len(sample_data_general_dict) :
                ~ps[sample_data_general_dict[k]].harData
          /\ sample_error' = "TypeError"
       \/ /\ \A k \in 1..Len(sample_data_general_dict) :
                ps[sample_data_general_dict[k]].harData
          /\ DataRecordsOf(sample_data_general_dict) = <<>>
          /\ sample_error' = "KeyError"
    /\ spc' = "raised"
    /\ UNCHANGED <<ps_column, base_column, ps, bh, sample_info,
                   sample_data_general_dict, sample_data, samples_gdf>>
    /\ UNCHANGED outsideSamples

\* lines 444-452: the rows the three inner merges keep (a record whose keys
\* find no partner is dropped); a missing tilLengde column is filled with None
Merged(keep) ==
    LET kept == SelectSeq([k \in 1..Len(sample_data) |-> k], LAMBDA k : keep[k])
    IN [k \in 1..Len(kept) |->
          [inv |-> sample_data[kept[k]].inv,
           depth_top |-> sample_data[kept[k]].depth_top,
           depth_base |-> IF base_column THEN sample_data[kept[k]].depth_base
                          ELSE PyNone]]

Finished_planned(rows) ==
    [k \in 1..Len(rows) |->
        [inv |-> rows[k].inv,
         depth_top |-> rows[k].depth_top,
         depth_base |-> rows[k].depth_base,
         depth |-> get_sample_depth(rows[k].depth_top, rows[k].depth_base),
         method_status_id |-> 1,
         method_type |-> "sa",
         method_status |-> "planned"]]

\* lines 484-497: the constant columns and the representative depth
Finished(rows) ==
    [k \in 1..Len(rows) |->
        [inv |-> rows[k].inv,
         depth_top |-> rows[k].depth_top,
         depth_base |-> rows[k].depth_base,
         depth |-> get_sample_depth(rows[k].depth_top, rows[k].depth_base),
         method_status_id |-> 3,
         method_type |-> "sa",
         method_status |-> "conducted"]]

\* lines 444-501: merge, aggregate, and return the frame, or None when the
\* merge kept no row
SamplesReturn ==
    /\ spc = "data"
    /\ \E keep \in [1..Len(sample_data) -> BOOLEAN] :
        LET rows == Merged(keep) IN
        /\ \A k \in 1..Len(rows) :
            get_sample_depth(rows[k].depth_top, rows[k].depth_base) # TypeError
        /\ samples_gdf' = IF rows = <<>> THEN NoFrame
                          ELSE GeoFrame(Finished(rows))
    /\ spc' = "returned"
    /\ UNCHANGED <<ps_column, base_column, ps, bh, sample_info,
                   sample_data_general_dict, sample_data, sample_error>>
    /\ UNCHANGED outsideSamples

\* line 497: _get_sample_depth raises over a row
SamplesDepthRaise ==
    /\ spc = "data"
    /\ \E keep \in [1..Len(sample_data) -> BOOLEAN] :
        \E k \in 1..Len(Merged(keep)) :
            get_sample_depth(Merged(keep)[k].depth_top,
                             Merged(keep)[k].depth_base) = TypeError
    /\ sample_error' = "TypeError"
    /\ spc' = "raised"
    /\ UNCHANGED <<ps_column, base_column, ps, bh, sample_info,
                   sample_data_general_dict, sample_data, samples_gdf>>
    /\ UNCHANGED outsideSamples

SamplesNext ==
    \/ SamplesNoColumn
    \/ SamplesSeries
    \/ SamplesSeriesRaise
    \/ SamplesSegments
    \/ SamplesSegmentsRaise
    \/ SamplesData
    \/ SamplesDataRaise
    \/ SamplesReturn
    \/ SamplesDepthRaise

(***************************************************************************)
(* ---------------- The sounding assembly -------------------------------- *)
(* get_all_soundings (nadag_api.py 185-269). The three get_soundings calls *)
(* are tasks of one asyncio.gather; what a task returns follows the loop   *)
(* of get_soundings: a document that fails in the try leaves the previous  *)
(* table in its place, or raises when it is the first.                     *)
(***************************************************************************)
MaxInvestigations == 2    \* most investigations of one batch

\* the reference columns of the methods rp, tot, cpt (lines 197-199)
ReferenceColumn ==
    [m \in Methods |-> CASE m = "rp" -> "ss" [] m = "tot" -> "ks" [] OTHER -> "ts"]

\* a reference cell: null, or a list whose first href leads to observation
\* documents that normalize ("ok") or fail in the try ("bad")
ReferenceCells == {"null", "ok", "bad"}

\* an investigation: its three reference cells (its lokalId is its row number)
Investigations ==
    [ss : ReferenceCells, ks : ReferenceCells, ts : ReferenceCells]

\* lines 209-211: {lokalId: href} over the rows whose cell is not null, in
\* row order; lokalId is the row number
HrefDict(frame, m) ==
    LET rows == SelectSeq([k \in 1..Len(frame) |-> k],
                          LAMBDA k : frame[k][ReferenceColumn[m]] # "null")
    IN [k \in 1..Len(rows) |->
          [lokalId |-> rows[k], doc |-> frame[rows[k]][ReferenceColumn[m]]]]

\* lines 136-173 of get_soundings over the documents of one method: the table
\* at position k is the one built from reference k, or, when that document
\* fails in the try, the table object of position k - 1
RECURSIVE TableAt(_, _, _)
TableAt(m, refs, k) ==
    IF refs[k].doc = "ok" THEN [method |-> m, of |-> refs[k].lokalId]
    ELSE TableAt(m, refs, k - 1)

\* get_soundings raises UnboundLocalError when the first document fails
TaskRaises(refs) == refs # <<>> /\ refs[1].doc = "bad"

TaskTables_firstMethod(m, refs) ==
    [k \in 1..Len(refs) |-> TableAt("rp", refs, k)]

\* the list get_soundings returns
TaskTables(m, refs) == [k \in 1..Len(refs) |-> TableAt(m, refs, k)]

\* lines 228-246: the rows of one method
MethodRows(m, refs, tables) ==
    [k \in 1..Len(tables) |->
        [method_type |-> m,
         gbhu_id |-> refs[k].lokalId,
         data |-> tables[k],
         method_status_id |-> 3,
         method_status |-> "conducted"]]

\* boreholes_out = None
NoBoreholes == [isNone |-> TRUE, rows |-> <<>>]
Boreholes(rows) == [isNone |-> FALSE, rows |-> rows]

\* lines 225-264: the methods with an empty list are skipped, the others are
\* concatenated in the order rp, tot, cpt
Assembled(refs, tables) ==
    LET rows == MethodRows("rp", refs["rp"], tables["rp"])
                \o MethodRows("tot", refs["tot"], tables["tot"])
                \o MethodRows("cpt", refs["cpt"], tables["cpt"])
    IN IF rows = <<>> THEN NoBoreholes ELSE Boreholes(rows)

SoundingsInit ==
    /\ borehullunders \in SeqsUpTo(Investigations, MaxInvestigations)
    /\ href_dicts = [m \in Methods |-> <<>>]
    /\ task = [m \in Methods |-> "none"]
    /\ task_data = [m \in Methods |-> <<>>]
    /\ boreholes_out = NoBoreholes
    /\ sounding_error = "none"
    /\ sopc = "called"

SoundingsIdle ==
    /\ borehullunders = <<>>
    /\ href_dicts = [m \in Methods |-> <<>>]
    /\ task = [m \in Methods |-> "none"]
    /\ task_data = [m \in Methods |-> <<>>]
    /\ boreholes_out = NoBoreholes
    /\ sounding_error = "none"
    /\ sopc = "idle"

\* lines 193-194: an empty table, the call returns None
SoundingsEmpty ==
    /\ sopc = "called" /\ borehullunders = <<>>
    /\ boreholes_out' = NoBoreholes
    /\ sopc' = "returned"
    /\ UNCHANGED <<borehullunders, href_dicts, task, task_data, sounding_error>>
    /\ UNCHANGED outsideSoundings

Gathered_first(methods) ==
    [m \in methods |-> IF m = "rp" THEN "running" ELSE "none"]

\* lines 219-223: asyncio.gather makes a task of each of the three calls;
\* all three are in flight when the caller is suspended
Gathered(methods) == [m \in methods |-> "running"]

\* lines 196-223: the href dicts are built and the three tasks are gathered
SoundingsGather ==
    /\ sopc = "called" /\ borehullunders # <<>>
    /\ href_dicts' = [m \in Methods |-> HrefDict(borehullunders, m)]
    /\ task' = Gathered(Methods)
    /\ sopc' = "gather"
    /\ UNCHANGED <<borehullunders, task_data, boreholes_out, sounding_error>>
    /\ UNCHANGED outsideSoundings

\* get_soundings line 133: the method documents of task m have arrived, the
\* task now awaits the observation documents (line 134)
TaskAwait(m) ==
    /\ sopc = "gather" /\ task[m] = "running"
    /\ task' = [task EXCEPT ![m] = "observations"]
    /\ UNCHANGED <<borehullunders, href_dicts, task_data, boreholes_out,
                   sounding_error, sopc>>
    /\ UNCHANGED outsideSoundings

\* the observation documents have arrived; the loop of lines 136-173 has no
\* await, and the task of method m returns its list (line 175)
TaskDone(m) ==
    /\ sopc = "gather" /\ task[m] = "observations"
    /\ ~TaskRaises(href_dicts[m])
    /\ task_data' = [task_data EXCEPT ![m] = TaskTables(m, href_dicts[m])]
    /\ task' = [task EXCEPT ![m] = "done"]
    /\ UNCHANGED <<borehullunders, href_dicts, boreholes_out, sounding_error,
                   sopc>>
    /\ UNCHANGED outsideSoundings

\* the task of method m raises; gather hands the exception to the caller
TaskRaise(m) ==
    /\ sopc = "gather" /\ task[m] = "observations"
    /\ TaskRaises(href_dicts[m])
    /\ task' = [task EXCEPT ![m] = "raised"]
    /\ sounding_error' = "UnboundLocalError"
    /\ sopc' = "raised"
    /\ UNCHANGED <<borehullunders, href_dicts, task_data, boreholes_out>>
    /\ UNCHANGED outsideSoundings

\* lines 225-264: all three tasks returned; the rows are assembled
SoundingsAssemble ==
    /\ sopc = "gather"
    /\ \A m \in Methods : task[m] = "done"
    /\ boreholes_out' = Assembled(href_dicts, task_data)
    /\ sopc' = "assembled"
    /\ UNCHANGED <<borehullunders, href_dicts, task, task_data, sounding_error>>
    /\ UNCHANGED outsideSoundings

\* lines 266-269: the locations are resolved and the rows returned
SoundingsReturn ==
    /\ sopc = "assembled" /\ ~boreholes_out.isNone
    /\ sopc' = "returned"
    /\ UNCHANGED <<borehullunders, href_dicts, task, task_data, boreholes_out,
                   sounding_error>>
    /\ UNCHANGED outsideSoundings

\* line 266: boreholes_out is None and boreholes_out.apply raises
SoundingsNoneRaise ==
    /\ sopc = "assembled" /\ boreholes_out.isNone
    /\ sounding_error' = "AttributeError"
    /\ sopc' = "raised"
    /\ UNCHANGED <<borehullunders, href_dicts, task, task_data, boreholes_out>>
    /\ UNCHANGED outsideSoundings

TaskAwaitRp == TaskAwait("rp")
TaskAwaitTot == TaskAwait("tot")
TaskAwaitCpt == TaskAwait("cpt")
TaskDoneRp == TaskDone("rp")
TaskDoneTot == TaskDone("tot")
TaskDoneCpt == TaskDone("cpt")
TaskRaiseRp == TaskRaise("rp")
TaskRaiseTot == TaskRaise("tot")
TaskRaiseCpt == TaskRaise("cpt")

SoundingsNext ==
    \/ SoundingsEmpty
    \/ SoundingsGather
    \/ TaskAwaitRp
    \/ TaskAwaitTot
    \/ TaskAwaitCpt
    \/ TaskDoneRp
    \/ TaskDoneTot
    \/ TaskDoneCpt
    \/ TaskRaiseRp
    \/ TaskRaiseTot
    \/ TaskRaiseCpt
    \/ SoundingsAssemble
    \/ SoundingsReturn
    \/ SoundingsNoneRaise

(***************************************************************************)
(* ---------------- The assembly over a large extent --------------------- *)
(* get_data_big_areas (nadag_api.py 605-646) with split_bbox (utils/geo.py *)
(* 4-21). Coordinates are whole numbers and the arithmetic is exact; a     *)
(* cell is kept as its column and row number, its edges being              *)
(* minx + i * width with width = (maxx - minx) / n_cols. The fetch of a    *)
(* cell is get_collection with the filter S_INTERSECTS over the closed     *)
(* cell; the processing of a cell (get_all_soundings, get_samples) either  *)
(* returns or raises.                                                      *)
(***************************************************************************)
MaxExtent == 4        \* largest width / height of the query extent
MaxDistQuery == 2     \* largest max_dist_query

Max(a, b) == IF a >= b THEN a ELSE b

\* line 611: max(extent // max_dist_query, 1)
GridCount(extent, max_dist) == Max(extent \div max_dist, 1)

\* split_bbox: the cells, column by column (geo.py 11-17)
SplitBbox(n_rows, n_cols) ==
    [k \in 1..(n_cols * n_rows) |-> <<(k - 1) \div n_rows, (k - 1) % n_rows>>]

\* the position p lies in the closed cell <<i, j>> of the grid over b
\* (minx + i * width <= x <= minx + (i + 1) * width, multiplied by n_cols)
InCell(p, cell, b, g) ==
    /\ cell[1] * (b[3] - b[1]) <= (p[1] - b[1]) * g[1]
    /\ (p[1] - b[1]) * g[1] <= (cell[1] + 1) * (b[3] - b[1])
    /\ cell[2] * (b[4] - b[2]) <= (p[2] - b[2]) * g[2]
    /\ (p[2] - b[2]) * g[2] <= (cell[2] + 1) * (b[4] - b[2])

\* the rows of a frame: the members of a set in the order the server lists them
SetToSeq(S) ==
    CHOOSE f \in [1..Cardinality(S) -> S] :
        \A a, b \in 1..Cardinality(S) : a # b => f[a] # f[b]

\* get_collection("geotekniskborehullunders", cell bounds): the investigations
\* that intersect the cell
CellFrame(cell) ==
    SetToSeq({p \in positions : InCell(p, cell, bounds, grid)})

\* the positions of the extent: whole-number points of the closed box
Lattice(b) == {<<x, y>> : x \in b[1]..b[3], y \in b[2]..b[4]}

\* None in a result list
NoResult == [isNone |-> TRUE, rows |-> <<>>]
Rows(rows) == [isNone |-> FALSE, rows |-> rows]

\* the rows get_all_soundings / get_samples give for the frame of cell k
CellRows(k) == Rows([n \in 1..Len(gbhu_list[k]) |-> [cell |-> k, at |-> gbhu_list[k][n]]])

\* pd.concat over a list with None entries: the None entries are dropped
ConcatResults(list) ==
    Concat([k \in 1..Len(list) |-> list[k].rows])

\* pd.concat raises ValueError when the list is empty or holds only None
ConcatRaises(list) == \A k \in 1..Len(list) : list[k].isNone

AssembleInit ==
    /\ \E w, h \in 1..MaxExtent : bounds = <<0, 0, w, h>>
    /\ max_dist_query \in 1..MaxDistQuery
    /\ include_samples \in BOOLEAN
    /\ location_name_column \in BOOLEAN
    /\ \E free \in {{}} \cup {{p} : p \in Lattice(bounds)},
          corner \in {{}, {<<0, 0>>}} :
        positions = free \cup corner
    /\ grid = <<0, 0>>
    /\ sub_boxes = <<>>
    /\ gbhu_list = <<>>
    /\ gbhu = <<>>
    /\ borehole_list = <<>>
    /\ sample_list = <<>>
    /\ failed = {}
    /\ assembled = <<>>
    /\ assemble_error = "none"
    /\ apc = "called"

AssembleIdle ==
    /\ bounds = <<0, 0, 0, 0>> /\ max_dist_query = 0
    /\ include_samples = FALSE /\ location_name_column = FALSE
    /\ positions = {} /\ grid = <<0, 0>> /\ sub_boxes = <<>>
    /\ gbhu_list = <<>> /\ gbhu = <<>> /\ borehole_list = <<>>
    /\ sample_list = <<>> /\ failed = {} /\ assembled = <<>>
    /\ assemble_error = "none" /\ apc = "idle"

\* lines 611-613: the grid is sized and the extent split
ComputeGrid ==
    /\ apc = "called"
    /\ grid' = <<GridCount(bounds[3] - bounds[1], max_dist_query),
                 GridCount(bounds[4] - bounds[2], max_dist_query)>>
    /\ sub_boxes' = SplitBbox(GridCount(bounds[4] - bounds[2], max_dist_query),
                              GridCount(bounds[3] - bounds[1], max_dist_query))
    /\ apc' = "fetching"
    /\ UNCHANGED <<bounds, max_dist_query, include_samples,
                   location_name_column, positions, gbhu_list, gbhu,
                   borehole_list, sample_list, failed, assembled,
                   assemble_error>>
    /\ UNCHANGED outsideAssemble

\* lines 615-617: the investigations of the next cell are fetched
FetchCell ==
    /\ apc = "fetching" /\ Len(gbhu_list) < Len(sub_boxes)
    /\ gbhu_list' = Append(gbhu_list, CellFrame(sub_boxes[Len(gbhu_list) + 1]))
    /\ UNCHANGED <<bounds, max_dist_query, include_samples,
                   location_name_column, positions, grid, sub_boxes, gbhu,
                   borehole_list, sample_list, failed, assembled,
                   assemble_error, apc>>
    /\ UNCHANGED outsideAssemble

\* line 616: get_collection raises (a failed page request); nothing catches it
FetchCellRaise ==
    /\ apc = "fetching" /\ Len(gbhu_list) < Len(sub_boxes)
    /\ assemble_error' = "HTTPError"
    /\ apc' = "raised"
    /\ UNCHANGED <<bounds, max_dist_query, include_samples,
                   location_name_column, positions, grid, sub_boxes, gbhu_list,
                   gbhu, borehole_list, sample_list, failed, assembled>>
    /\ UNCHANGED outsideAssemble

\* line 619: the cells without investigations are dropped
NonEmptyFrames(list) == SelectSeq(list, LAMBDA frame : frame # <<>>)

\* lines 619-620: the frames are filtered and concatenated
ConcatCells ==
    /\ apc = "fetching" /\ Len(gbhu_list) = Len(sub_boxes)
    /\ NonEmptyFrames(gbhu_list) # <<>>
    /\ gbhu_list' = NonEmptyFrames(gbhu_list)
    /\ gbhu' = Concat(NonEmptyFrames(gbhu_list))
    /\ apc' = "processing"
    /\ UNCHANGED <<bounds, max_dist_query, include_samples,
                   location_name_column, positions, grid, sub_boxes,
                   borehole_list, sample_list, failed, assembled,
                   assemble_error>>
    /\ UNCHANGED outsideAssemble

\* line 620: no cell has investigations, pd.concat([]) raises ValueError
ConcatCellsRaise ==
    /\ apc = "fetching" /\ Len(gbhu_list) = Len(sub_boxes)
    /\ NonEmptyFrames(gbhu_list) = <<>>
    /\ gbhu_list' = <<>>
    /\ assemble_error' = "ValueError"
    /\ apc' = "raised"
    /\ UNCHANGED <<bounds, max_dist_query, include_samples,
                   location_name_column, positions, grid, sub_boxes, gbhu,
                   borehole_list, sample_list, failed, assembled>>
    /\ UNCHANGED outsideAssemble

\* lines 625-641, no exception: the soundings and the samples of the next cell
ProcessCell ==
    /\ apc = "processing" /\ Len(borehole_list) < Len(gbhu_list)
    /\ borehole_list' = Append(borehole_list, CellRows(Len(borehole_list) + 1))
    /\ \E samples \in IF include_samples
                      THEN {CellRows(Len(borehole_list) + 1), NoResult}
                      ELSE {NoResult} :
        sample_list' = Append(sample_list, samples)
    /\ UNCHANGED <<bounds, max_dist_query, include_samples,
                   location_name_column, positions, grid, sub_boxes, gbhu_list,
                   gbhu, failed, assembled, assemble_error, apc>>
    /\ UNCHANGED outsideAssemble

\* lines 628-639: get_all_soundings or get_samples raises, the handler logs
\* item.location_name and records None for the cell
ProcessCellCaught ==
    /\ apc = "processing" /\ Len(borehole_list) < Len(gbhu_list)
    /\ location_name_column
    /\ borehole_list' = Append(borehole_list, NoResult)
    /\ sample_list' = Append(sample_list, NoResult)
    /\ failed' = failed \cup {Len(borehole_list) + 1}
    /\ UNCHANGED <<bounds, max_dist_query, include_samples,
                   location_name_column, positions, grid, sub_boxes, gbhu_list,
                   gbhu, assembled, assemble_error, apc>>
    /\ UNCHANGED outsideAssemble

\* lines 634-636: the frame has no column location_name, item.location_name
\* raises AttributeError inside the handler
ProcessCellHandlerRaise ==
    /\ apc = "processing" /\ Len(borehole_list) < Len(gbhu_list)
    /\ ~location_name_column
    /\ failed' = failed \cup {Len(borehole_list) + 1}
    /\ assemble_error' = "AttributeError"
    /\ apc' = "raised"
    /\ UNCHANGED <<bounds, max_dist_query, include_samples,
                   location_name_column, positions, grid, sub_boxes, gbhu_list,
                   gbhu, borehole_list, sample_list, assembled>>
    /\ UNCHANGED outsideAssemble

\* lines 643-646: both lists are concatenated and the triple returned
AssembleReturn ==
    /\ apc = "processing" /\ Len(borehole_list) = Len(gbhu_list)
    /\ ~ConcatRaises(borehole_list) /\ ~ConcatRaises(sample_list)
    /\ assembled' = <<gbhu, ConcatResults(borehole_list),
                      ConcatResults(sample_list)>>
    /\ apc' = "returned"
    /\ UNCHANGED <<bounds, max_dist_query, include_samples,
                   location_name_column, positions, grid, sub_boxes, gbhu_list,
                   gbhu, borehole_list, sample_list, failed, assemble_error>>
    /\ UNCHANGED outsideAssemble

\* lines 643-644: a list that holds only None makes pd.concat raise ValueError
AssembleConcatRaise ==
    /\ apc = "processing" /\ Len(borehole_list) = Len(gbhu_list)
    /\ ConcatRaises(borehole_list) \/ ConcatRaises(sample_list)
    /\ assemble_error' = "ValueError"
    /\ apc' = "raised"
    /\ UNCHANGED <<bounds, max_dist_query, include_samples,
                   location_name_column, positions, grid, sub_boxes, gbhu_list,
                   gbhu, borehole_list, sample_list, failed, assembled>>
    /\ UNCHANGED outsideAssemble

AssembleNext ==
    \/ ComputeGrid
    \/ FetchCell
    \/ FetchCellRaise
    \/ ConcatCells
    \/ ConcatCellsRaise
    \/ ProcessCell
    \/ ProcessCellCaught
    \/ ProcessCellHandlerRaise
    \/ AssembleReturn
    \/ AssembleConcatRaise

(***************************************************************************)
(* ---------------- The grid of cells ------------------------------------ *)
(* split_bbox (utils/geo.py 4-21). total_bounds is an array of binary      *)
(* floating-point numbers, so every operation of lines 9-17 rounds its     *)
(* result to the nearest representable number (ties to even). A number is  *)
(* kept as a whole count of units of 1 / Unit; the mantissa has Precision  *)
(* bits (53 in the build), and all the numbers that occur have at least    *)
(* the full mantissa above one unit, so that the only rounding is the one  *)
(* of the mantissa.                                                        *)
(***************************************************************************)
Precision == 4        \* bits of the mantissa
MaxCorner == 2        \* largest minx / miny
MaxSide == 4          \* largest width / height of the box
MaxGrid == 3          \* largest n_rows / n_cols

Unit == 2 ^ (Precision + 3)

\* the spacing of the representable numbers around num / den
RECURSIVE Ulp(_, _, _)
Ulp(num, den, s) ==
    IF num < (2 ^ Precision) * den * s THEN s ELSE Ulp(num, den, 2 * s)

\* num / den rounded to the nearest representable number, ties to even
Round(num, den) ==
    LET s == Ulp(num, den, 1)
        q == num \div (den * s)
        twice == 2 * (num % (den * s))
        up == twice > den * s \/ (twice = den * s /\ q % 2 = 1)
    IN  (q + IF up THEN 1 ELSE 0) * s

FloatAdd(a, b) == Round(a + b, 1)
FloatSub(a, b) == Round(a - b, 1)
FloatMul(i, a) == Round(i * a, 1)
FloatDiv(a, n) == Round(a, n)

\* lines 8-20: the cells, column by column, numbered from 0
split_bbox(b, n_rows, n_cols) ==
    LET width == FloatDiv(FloatSub(b[3], b[1]), n_cols)
        height == FloatDiv(FloatSub(b[4], b[2]), n_rows)
        sub_minx(i) == FloatAdd(b[1], FloatMul(i, width))
        sub_miny(j) == FloatAdd(b[2], FloatMul(j, height))
    IN  [k \in 1..Len(SplitBbox(n_rows, n_cols)) |->
            LET i == SplitBbox(n_rows, n_cols)[k][1]
                j == SplitBbox(n_rows, n_cols)[k][2]
            IN  [id |-> k - 1,
                 geometry |-> <<sub_minx(i), sub_miny(j),
                                FloatAdd(sub_minx(i), width),
                                FloatAdd(sub_miny(j), height)>>]]

SplitInit ==
    /\ \E x, y \in 0..MaxCorner, w, h \in 1..MaxSide :
          bbox = <<x * Unit, y * Unit, (x + w) * Unit, (y + h) * Unit>>
    /\ split_rows \in 1..MaxGrid
    /\ split_cols \in 1..MaxGrid
    /\ subgrid = <<>>
    /\ gridpc = "called"

SplitIdle ==
    /\ bbox = <<0, 0, 0, 0>> /\ split_rows = 0 /\ split_cols = 0
    /\ subgrid = <<>> /\ gridpc = "idle"

\* line 21: the frame is returned
SplitReturn ==
    /\ gridpc = "called"
    /\ subgrid' = split_bbox(bbox, split_rows, split_cols)
    /\ gridpc' = "returned"
    /\ UNCHANGED <<bbox, split_rows, split_cols>>
    /\ UNCHANGED outsideSplit

SplitNext ==
    \/ SplitReturn

(***************************************************************************)
(* ---------------- The loop over the cells ------------------------------ *)
(* get_data_big_areas lines 622-646, a cell at a time: the loop awaits     *)
(* get_all_soundings(item), whose steps are those of the sounding assembly *)
(* above (the gather of the three tasks included), then get_samples(item), *)
(* and appends both results, or None for both when either call raised.     *)
(***************************************************************************)
MaxCells == 2         \* most cells with investigations

\* the frames of the cells: one investigation each
CellFrames ==
    {<<[ss |-> "ok", ks |-> "ok", ts |-> "ok"]>>,
     <<[ss |-> "bad", ks |-> "null", ts |-> "ok"]>>,
     <<[ss |-> "null", ks |-> "bad", ts |-> "null"]>>,
     <<[ss |-> "ok", ks |-> "null", ts |-> "bad"]>>,
     <<[ss |-> "null", ks |-> "null", ts |-> "null"]>>}

\* what get_samples finds for a cell: it raises, or these merged rows
CellSampleData ==
    {[raises |-> TRUE, rows |-> <<>>],
     [raises |-> FALSE, rows |-> <<>>],
     [raises |-> FALSE,
      rows |-> <<[inv |-> 1, depth_top |-> Num(3), depth_base |-> Num(5)]>>]}

\* get_samples lines 482-501 over the merged rows
CellSampleFrame(found) ==
    IF found.rows = <<>> THEN NoFrame ELSE GeoFrame(Finished(found.rows))

CellsInit ==
    /\ \E n \in 1..MaxCells :
        /\ cell_frames \in [1..n -> CellFrames]
        /\ cell_sample_data \in [1..n -> CellSampleData]
    /\ cell_include_samples \in BOOLEAN
    /\ cell_location_name \in BOOLEAN
    /\ cell_boreholes = <<>>
    /\ cell_samples = <<>>
    /\ cell_events = <<>>
    /\ cell_result = <<>>
    /\ cpc = "loop"

CellsIdle ==
    /\ cell_frames = <<>> /\ cell_sample_data = <<>>
    /\ cell_include_samples = FALSE /\ cell_location_name = FALSE
    /\ cell_boreholes = <<>> /\ cell_samples = <<>> /\ cell_events = <<>>
    /\ cell_result = <<>> /\ cpc = "idle"

\* lines 625-629: the next cell; get_all_soundings(item) is called and awaited
CellStart ==
    /\ cpc = "loop" /\ Len(cell_boreholes) < Len(cell_frames)
    /\ borehullunders' = cell_frames[Len(cell_boreholes) + 1]
    /\ href_dicts' = [m \in Methods |-> <<>>]
    /\ task' = [m \in Methods |-> "none"]
    /\ task_data' = [m \in Methods |-> <<>>]
    /\ boreholes_out' = NoBoreholes
    /\ sounding_error' = "none"
    /\ sopc' = "called"
    /\ cell_events' = Append(cell_events, <<"start", Len(cell_boreholes) + 1>>)
    /\ cpc' = "soundings"
    /\ UNCHANGED <<cell_frames, cell_sample_data, cell_include_samples,
                   cell_location_name, cell_boreholes, cell_samples,
                   cell_result>>
    /\ UNCHANGED outsideCellsCall

\* lines 629-631: get_all_soundings returned, get_samples(item) is awaited
CellSamplesCall ==
    /\ cpc = "soundings" /\ sopc = "returned"
    /\ cell_include_samples
    /\ cell_events' = Append(cell_events, <<"samples", Len(cell_boreholes) + 1>>)
    /\ cpc' = "samples"
    /\ UNCHANGED <<cell_frames, cell_sample_data, cell_include_samples,
                   cell_location_name, cell_boreholes, cell_samples,
                   cell_result>>
    /\ UNCHANGED outsideCells

\* lines 632-633, 638-639: no samples are asked for
CellDoneNoSamples ==
    /\ cpc = "soundings" /\ sopc = "returned"
    /\ ~cell_include_samples
    /\ cell_boreholes' = Append(cell_boreholes, boreholes_out)
    /\ cell_samples' = Append(cell_samples, NoFrame)
    /\ cell_events' =
           Append(cell_events, <<"completed", Len(cell_boreholes) + 1>>)
    /\ cpc' = "loop"
    /\ UNCHANGED <<cell_frames, cell_sample_data, cell_include_samples,
                   cell_location_name, cell_result>>
    /\ UNCHANGED outsideCells

\* lines 631, 638-639: get_samples returned, both results are appended
CellDone ==
    /\ cpc = "samples"
    /\ ~cell_sample_data[Len(cell_boreholes) + 1].raises
    /\ cell_boreholes' = Append(cell_boreholes, boreholes_out)
    /\ cell_samples' =
           Append(cell_samples,
                  CellSampleFrame(cell_sample_data[Len(cell_boreholes) + 1]))
    /\ cell_events' =
           Append(cell_events, <<"completed", Len(cell_boreholes) + 1>>)
    /\ cpc' = "loop"
    /\ UNCHANGED <<cell_frames, cell_sample_data, cell_include_samples,
                   cell_location_name, cell_result>>
    /\ UNCHANGED outsideCells

\* one of the two calls of the cell raised
CellRaised ==
    \/ cpc = "soundings" /\ sopc = "raised"
    \/ cpc = "samples" /\ cell_sample_data[Len(cell_boreholes) + 1].raises

\* lines 634-639: the handler logs item.location_name and None is appended
\* for the soundings and for the samples of the cell
CellCaught ==
    /\ CellRaised
    /\ cell_location_name
    /\ cell_boreholes' = Append(cell_boreholes, NoBoreholes)
    /\ cell_samples' = Append(cell_samples, NoFrame)
    /\ cell_events' = Append(cell_events, <<"failed", Len(cell_boreholes) + 1>>)
    /\ cpc' = "loop"
    /\ UNCHANGED <<cell_frames, cell_sample_data, cell_include_samples,
                   cell_location_name, cell_result>>
    /\ UNCHANGED outsideCells

\* lines 634-635: the frame has no column location_name and the handler
\* raises AttributeError
CellHandlerRaise ==
    /\ CellRaised
    /\ ~cell_location_name
    /\ cell_events' = Append(cell_events, <<"failed", Len(cell_boreholes) + 1>>)
    /\ cpc' = "raised"
    /\ UNCHANGED <<cell_frames, cell_sample_data, cell_include_samples,
                   cell_location_name, cell_boreholes, cell_samples,
                   cell_result>>
    /\ UNCHANGED outsideCells

\* lines 643-646: both lists are concatenated and returned
CellsReturn ==
    /\ cpc = "loop" /\ Len(cell_boreholes) = Len(cell_frames)
    /\ ~ConcatRaises(cell_boreholes) /\ ~ConcatRaises(cell_samples)
    /\ cell_result' =
           <<ConcatResults(cell_boreholes), ConcatResults(cell_samples)>>
    /\ cpc' = "returned"
    /\ UNCHANGED <<cell_frames, cell_sample_data, cell_include_samples,
                   cell_location_name, cell_boreholes, cell_samples,
                   cell_events>>
    /\ UNCHANGED outsideCells

\* lines 643-644: a list that holds only None makes pd.concat raise
CellsConcatRaise ==
    /\ cpc = "loop" /\ Len(cell_boreholes) = Len(cell_frames)
    /\ ConcatRaises(cell_boreholes) \/ ConcatRaises(cell_samples)
    /\ cpc' = "raised"
    /\ UNCHANGED <<cell_frames, cell_sample_data, cell_include_samples,
                   cell_location_name, cell_boreholes, cell_samples,
                   cell_events, cell_result>>
    /\ UNCHANGED outsideCells

CellsNext ==
    \/ CellStart
    \/ SoundingsGather
    \/ TaskAwaitRp
    \/ TaskAwaitTot
    \/ TaskAwaitCpt
    \/ TaskDoneRp
    \/ TaskDoneTot
    \/ TaskDoneCpt
    \/ TaskRaiseRp
    \/ TaskRaiseTot
    \/ TaskRaiseCpt
    \/ SoundingsAssemble
    \/ SoundingsReturn
    \/ SoundingsNoneRaise
    \/ CellSamplesCall
    \/ CellDoneNoSamples
    \/ CellDone
    \/ CellCaught
    \/ CellHandlerRaise
    \/ CellsReturn
    \/ CellsConcatRaise

(***************************************************************************)
(* ---------------- Aggregation of the sample rows ----------------------- *)
(* get_samples lines 461-481 and aggregate_samples (539-570). A row is a   *)
(* function from column names to cells; the frame is grouped by method_id  *)
(* (groups in ascending order of the key, rows of a group in frame order)  *)
(* and every column is reduced by the function agg_funcs names for it, or  *)
(* by take_any.                                                            *)
(***************************************************************************)
MaxSampleRows == 2    \* most merged rows

\* the method identifiers, in ascending order
MethodIds == <<1, 2>>

\* the measurements of a merged row
Measurements ==
    {[strength_undrained |-> NaN, water_content |-> Num(2)],
     [strength_undrained |-> Num(1), water_content |-> NaN],
     [strength_undrained |-> Num(2), water_content |-> Num(4)]}

\* the merged rows: the columns the rules of agg_funcs tell apart
MergedRows ==
    {[method_id |-> MethodIds[g],
      name |-> nm,
      strength_undrained |-> m.strength_undrained,
      water_content |-> m.water_content,
      layer_composition |-> text] :
        g \in 1..Len(MethodIds),
        nm \in {Str(<<"a">>), Str(<<"b">>)},
        m \in Measurements,
        text \in {Str(<<"L", "e", "i", "r", "e">>),
                  Str(<<"K", "v", "i", "k", "k", "l", "e", "i", "r", "e">>),
                  NaN}}

\* the cells of one column
ColumnOf(frame, col) == [k \in 1..Len(frame) |-> frame[k][col]]

\* lines 541-542
take_any(x) == x[1]

\* str.strip() leaves nothing
IsBlank(text) == \A k \in 1..Len(text) : text[k] = " "

\* ' | '.join(texts)
RECURSIVE JoinTexts(_)
JoinTexts(texts) ==
    IF Len(texts) = 1 THEN texts[1]
    ELSE texts[1] \o <<" ", "|", " ">> \o JoinTexts(Tail(texts))

\* lines 544-548
join_texts(x) ==
    LET filtered_x ==
            SelectSeq(x, LAMBDA text :
                /\ LowerText(text) \notin {<<"n", "a", "n">>, <<"n", "o", "n", "e">>, <<>>}
                /\ ~IsBlank(text))
    IN IF filtered_x # <<>> THEN JoinTexts(filtered_x) ELSE <<"-">>

\* the numbers of a column, nulls skipped
Numbers(x) == SelectSeq(x, LAMBDA cell : cell.kind = "num")

RECURSIVE Sum(_)
Sum(x) == IF x = <<>> THEN 0 ELSE x[1].num + Sum(Tail(x))

\* 'mean': the mean of the non-null cells, NaN when there is none
Mean(x) ==
    IF Numbers(x) = <<>> THEN NaN
    ELSE Quotient(Sum(Numbers(x)), Len(Numbers(x)))

\* 'min': the least of the non-null cells, NaN when there is none
MinOf(x) ==
    IF Numbers(x) = <<>> THEN NaN
    ELSE Num(CHOOSE n \in {Numbers(x)[k].num : k \in 1..Len(Numbers(x))} :
                 \A k \in 1..Len(Numbers(x)) : n <= Numbers(x)[k].num)

agg_funcs_noMin(col) ==
    CASE col \in {"water_content", "liquid_limit", "plastic_limit"} -> "mean"
      [] col = "layer_composition" -> "_clf_aggr"
      [] col = "layer_composition_full" -> "join_texts"
      [] OTHER -> "take_any"

\* lines 552-561, with the default of line 566
agg_funcs(col) ==
    CASE col \in {"water_content", "liquid_limit", "plastic_limit"} -> "mean"
      [] col = "layer_composition" -> "_clf_aggr"
      [] col = "layer_composition_full" -> "join_texts"
      [] col \in {"strength_undisturbed", "strength_undrained",
                  "strength_remoulded"} -> "min"
      [] OTHER -> "take_any"

\* one column of one group reduced by its function
Reduce(func, x) ==
    CASE func = "mean" -> Mean(x)
      [] func = "min" -> MinOf(x)
      [] func = "_clf_aggr" -> clf_aggr(x)
      [] func = "join_texts" -> join_texts(x)
      [] OTHER -> take_any(x)

\* the keys of the groups in ascending order
GroupKeys(frame) ==
    SelectSeq(MethodIds,
              LAMBDA g : \E k \in 1..Len(frame) : frame[k].method_id = g)

\* lines 539-570: groupby(id_field, as_index=False).agg(...)
aggregate_samples(frame) ==
    [n \in 1..Len(GroupKeys(frame)) |->
        LET members == SelectSeq(frame, LAMBDA r : r.method_id = GroupKeys(frame)[n])
        IN [col \in DOMAIN frame[1] |->
               Reduce(agg_funcs(col), ColumnOf(members, col))]]

\* lines 530-536
clf_single(x) ==
    IF x \in {<<"n", "a", "n">>, <<"n", "o", "n", "e">>} THEN "nothing"
    ELSE IF \E k \in 1..Len(QCL_KWD) : IsSubstring(QCL_KWD[k], LowerText(x))
         THEN "quick_clay"
         ELSE "other"

\* line 461 and line 473: the texts are lower-cased and copied to
\* layer_composition_full
WithLoweredTexts(frame) ==
    [k \in 1..Len(frame) |->
        [method_id |-> frame[k].method_id,
         name |-> frame[k].name,
         strength_undrained |-> frame[k].strength_undrained,
         water_content |-> frame[k].water_content,
         layer_composition |-> lower_composition(frame[k].layer_composition),
         layer_composition_full |-> lower_composition(frame[k].layer_composition)]]

AggregateInit ==
    /\ merged_in \in SeqsUpTo(MergedRows, MaxSampleRows)
    /\ sample_merged = merged_in
    /\ aggregate \in BOOLEAN
    /\ map_layer_composition \in BOOLEAN
    /\ agpc = "merged"

AggregateIdle ==
    /\ merged_in = <<>> /\ sample_merged = <<>> /\ aggregate = FALSE
    /\ map_layer_composition = FALSE /\ agpc = "idle"

\* lines 461-475: aggregate is true, the rows are grouped and reduced
SamplesAggregate ==
    /\ agpc = "merged" /\ Len(sample_merged) > 0
    /\ aggregate
    /\ sample_merged' = aggregate_samples(WithLoweredTexts(sample_merged))
    /\ agpc' = "done"
    /\ UNCHANGED <<merged_in, aggregate, map_layer_composition>>
    /\ UNCHANGED outsideAggregate

\* lines 461-480: aggregate is false, each text is classified on its own
SamplesMapSingle ==
    /\ agpc = "merged" /\ Len(sample_merged) > 0
    /\ ~aggregate /\ map_layer_composition
    /\ sample_merged' =
        [k \in 1..Len(sample_merged) |->
            [WithLoweredTexts(sample_merged)[k] EXCEPT
                !.layer_composition = clf_single(@)]]
    /\ agpc' = "done"
    /\ UNCHANGED <<merged_in, aggregate, map_layer_composition>>
    /\ UNCHANGED outsideAggregate

\* lines 461-473: neither flag, the rows keep their lower-cased texts
SamplesKeepTexts ==
    /\ agpc = "merged" /\ Len(sample_merged) > 0
    /\ ~aggregate /\ ~map_layer_composition
    /\ sample_merged' = WithLoweredTexts(sample_merged)
    /\ agpc' = "done"
    /\ UNCHANGED <<merged_in, aggregate, map_layer_composition>>
    /\ UNCHANGED outsideAggregate

\* line 472: the merge kept no row, nothing is aggregated
SamplesNoRows ==
    /\ agpc = "merged" /\ Len(sample_merged) = 0
    /\ agpc' = "done"
    /\ UNCHANGED <<merged_in, sample_merged, aggregate, map_layer_composition>>
    /\ UNCHANGED outsideAggregate

AggregateNext ==
    \/ SamplesAggregate
    \/ SamplesMapSingle
    \/ SamplesKeepTexts
    \/ SamplesNoRows

(***************************************************************************)
(* ---------------- Specifications --------------------------------------- *)
(***************************************************************************)
InitResolve ==
    /\ ResolveInit
    /\ FetchIdle /\ FlagsIdle /\ NormIdle /\ ColumnsIdle /\ SamplesIdle
    /\ SoundingsIdle /\ AssembleIdle /\ DepthIdle /\ ClassifyIdle
    /\ SplitIdle /\ AggregateIdle /\ CellsIdle
SpecResolve == InitResolve /\ [][ResolveNext]_vars

InitFlags ==
    /\ FlagsInit
    /\ ResolveIdle /\ FetchIdle /\ NormIdle /\ ColumnsIdle /\ SamplesIdle
    /\ SoundingsIdle /\ AssembleIdle /\ DepthIdle /\ ClassifyIdle
    /\ SplitIdle /\ AggregateIdle /\ CellsIdle
SpecFlags == InitFlags /\ [][FlagsNext]_vars

InitNorm ==
    /\ NormInit
    /\ ResolveIdle /\ FetchIdle /\ FlagsIdle /\ ColumnsIdle /\ SamplesIdle
    /\ SoundingsIdle /\ AssembleIdle /\ DepthIdle /\ ClassifyIdle
    /\ SplitIdle /\ AggregateIdle /\ CellsIdle
SpecNorm == InitNorm /\ [][NormNext]_vars

InitFetch ==
    /\ FetchInit
    /\ ResolveIdle /\ FlagsIdle /\ NormIdle /\ ColumnsIdle /\ SamplesIdle
    /\ SoundingsIdle /\ AssembleIdle /\ DepthIdle /\ ClassifyIdle
    /\ SplitIdle /\ AggregateIdle /\ CellsIdle
SpecFetch == InitFetch /\ [][FetchNext]_vars

InitColumns ==
    /\ ColumnsInit
    /\ ResolveIdle /\ FetchIdle /\ FlagsIdle /\ NormIdle /\ SamplesIdle
    /\ SoundingsIdle /\ AssembleIdle /\ DepthIdle /\ ClassifyIdle
    /\ SplitIdle /\ AggregateIdle /\ CellsIdle
SpecColumns == InitColumns /\ [][ColumnsNext]_vars

InitSamples ==
    /\ SamplesInit
    /\ ResolveIdle /\ FetchIdle /\ FlagsIdle /\ NormIdle /\ ColumnsIdle
    /\ SoundingsIdle /\ AssembleIdle /\ DepthIdle /\ ClassifyIdle
    /\ SplitIdle /\ AggregateIdle /\ CellsIdle
SpecSamples == InitSamples /\ [][SamplesNext]_vars

InitSoundings ==
    /\ SoundingsInit
    /\ ResolveIdle /\ FetchIdle /\ FlagsIdle /\ NormIdle /\ ColumnsIdle
    /\ SamplesIdle /\ AssembleIdle /\ DepthIdle /\ ClassifyIdle /\ SplitIdle
    /\ AggregateIdle /\ CellsIdle
SpecSoundings == InitSoundings /\ [][SoundingsNext]_vars

InitAssemble ==
    /\ AssembleInit
    /\ ResolveIdle /\ FetchIdle /\ FlagsIdle /\ NormIdle /\ ColumnsIdle
    /\ SamplesIdle /\ SoundingsIdle /\ DepthIdle /\ ClassifyIdle
    /\ SplitIdle /\ AggregateIdle /\ CellsIdle
SpecAssemble == InitAssemble /\ [][AssembleNext]_vars

InitDepth ==
    /\ DepthInit
    /\ ResolveIdle /\ FetchIdle /\ FlagsIdle /\ NormIdle /\ ColumnsIdle
    /\ SamplesIdle /\ SoundingsIdle /\ AssembleIdle /\ ClassifyIdle
    /\ SplitIdle /\ AggregateIdle /\ CellsIdle
SpecDepth == InitDepth /\ [][DepthNext]_vars

InitClassify ==
    /\ ClassifyInit
    /\ ResolveIdle /\ FetchIdle /\ FlagsIdle /\ NormIdle /\ ColumnsIdle
    /\ SamplesIdle /\ SoundingsIdle /\ AssembleIdle /\ DepthIdle
    /\ SplitIdle /\ AggregateIdle /\ CellsIdle
SpecClassify == InitClassify /\ [][ClassifyNext]_vars

InitSplit ==
    /\ SplitInit
    /\ ResolveIdle /\ FetchIdle /\ FlagsIdle /\ NormIdle /\ ColumnsIdle
    /\ SamplesIdle /\ SoundingsIdle /\ AssembleIdle /\ DepthIdle
    /\ ClassifyIdle /\ AggregateIdle /\ CellsIdle
SpecSplit == InitSplit /\ [][SplitNext]_vars

InitAggregate ==
    /\ AggregateInit
    /\ ResolveIdle /\ FetchIdle /\ FlagsIdle /\ NormIdle /\ ColumnsIdle
    /\ SamplesIdle /\ SoundingsIdle /\ AssembleIdle /\ DepthIdle
    /\ ClassifyIdle /\ SplitIdle /\ CellsIdle
SpecAggregate == InitAggregate /\ [][AggregateNext]_vars

InitCells ==
    /\ CellsInit
    /\ ResolveIdle /\ FetchIdle /\ FlagsIdle /\ NormIdle /\ ColumnsIdle
    /\ SamplesIdle /\ SoundingsIdle /\ AssembleIdle /\ DepthIdle
    /\ ClassifyIdle /\ SplitIdle /\ AggregateIdle
SpecCells == InitCells /\ [][CellsNext]_vars

(***************************************************************************)
(* Claims about the resolver, checked under SpecResolve.                   *)
(***************************************************************************)
\* the response task i's last request was answered with
LastRequest(i) == requests[i][Len(requests[i])]

\* C1: when get_href_list returns, its result has exactly one entry per input
\* href and entry i is the document of href i (None for a None href, else the
\* answer to task i's own last request), whatever order the tasks finished in.
C1_OrderPreserved ==
    gpc = "returned" =>
        /\ Len(result) = Len(href_list)
        /\ \A i \in Slots :
            IF href_list[i] = None THEN result[i] = NoneDoc
            ELSE /\ result[i].href = href_list[i]
                 /\ result[i].params = LastRequest(i).params
                 /\ result[i] = responses[i][Len(responses[i])]

\* C1 witness: get_href_list returned two different documents whose requests
\* completed in the opposite order of the input.
C1_Witness ==
    /\ gpc = "returned"
    /\ Len(href_list) >= 2
    /\ href_list[1] # None /\ href_list[2] # None /\ href_list[1] # href_list[2]
    /\ \E a, b \in 1..Len(order) : a < b /\ order[a] = 2 /\ order[b] = 1

\* C2 (as claimed): a failed request of one href leaves the call as a whole
\* unfailed - get_href_list never raises because one task did.
C2_FailureIsolated ==
    (\E i \in Slots : pc[i] = "failed") => gpc # "raised"

\* C3: a None href at position i never causes a request, its task returns None,
\* and the returned list has None at position i.
C3_NoneInNoneOut ==
    \A i \in Slots :
        href_list[i] = None =>
            /\ requests[i] = <<>>
            /\ responses[i] = <<>>
            /\ gpc # "idle" => (pc[i] = "done" /\ data[i] = NoneDoc)
            /\ gpc = "returned" => result[i] = NoneDoc

\* C3 witness: a returned call with a None position beside a resolved one.
C3_Witness ==
    /\ gpc = "returned"
    /\ \E i, j \in Slots :
        /\ href_list[i] = None /\ result[i] = NoneDoc
        /\ href_list[j] # None /\ requests[j] # <<>>

\* C4: a task whose first response has both counters and numberReturned <
\* numberMatched issues exactly one more request, to the same href with
\* limit = numberMatched + 1, and returns that second response; otherwise it
\* returns the first response and issues no second request.
C4_RefetchOnce ==
    \A i \in Slots :
        href_list[i] # None =>
            /\ Len(requests[i]) <= 2
            /\ Len(requests[i]) >= 1 =>
                    requests[i][1] = [href |-> href_list[i], params |-> NoParams]
            /\ pc[i] = "done" =>
                LET first == responses[i][1] IN
                IF first.hasNR /\ first.hasNM
                      /\ first.numberReturned < first.numberMatched
                THEN /\ Len(requests[i]) = 2
                     /\ requests[i][2] =
                            [href |-> href_list[i],
                             params |-> LimitParams(first.numberMatched + 1)]
                     /\ Len(responses[i]) = 2
                     /\ data[i] = responses[i][2]
                     /\ data[i].params = LimitParams(first.numberMatched + 1)
                ELSE /\ Len(requests[i]) = 1
                     /\ Len(responses[i]) = 1
                     /\ data[i] = first
            /\ (gpc = "returned" /\ pc[i] = "done") => result[i] = data[i]

\* C4 witness: a returned call one of whose tasks refetched a truncated document.
C4_Witness ==
    /\ gpc = "returned"
    /\ \E i \in Slots :
        /\ href_list[i] # None
        /\ Len(responses[i]) = 2
        /\ responses[i][1].numberReturned < responses[i][1].numberMatched
        /\ result[i] = responses[i][2]

(***************************************************************************)
(* Claims about the paginated fetcher, checked under SpecFetch.            *)
(***************************************************************************)
\* link k of a page is its first link with rel = "next"
IsFirstNextLink(page, k) ==
    /\ page.links[k].rel = "next"
    /\ \A j \in 1..(k - 1) : page.links[j].rel # "next"

PageHasNextLink(page) == \E k \in 1..Len(page.links) : page.links[k].rel = "next"

\* C5: get_collection sends the filter and limit parameters with the first
\* request only; request k > 1 goes, with no parameters, to the rel="next" link
\* of response k-1; it stops at the first response without a "next" link and
\* returns the features of all pages, concatenated in request order.
C5_Pagination ==
    /\ \A k \in 1..Len(fetch_requests) :
        /\ fetch_requests[k].params = IF k = 1 THEN FilterParams ELSE <<>>
        /\ IF k = 1 THEN fetch_requests[k].url = ItemsUrl
           ELSE /\ k - 1 <= Len(pages)
                /\ \E j \in 1..Len(pages[k - 1].links) :
                    /\ IsFirstNextLink(pages[k - 1], j)
                    /\ fetch_requests[k].url = pages[k - 1].links[j].href
    /\ \A k \in 1..(Len(pages) - 1) : PageHasNextLink(pages[k])
    /\ fpc = "returned" =>
        /\ Len(pages) >= 1
        /\ Len(fetch_requests) = Len(pages)
        /\ ~PageHasNextLink(pages[Len(pages)])
        /\ fetched.returned
        /\ Len(fetched.rows) = Len(Concat([k \in 1..Len(pages) |-> pages[k].features]))
        /\ \A r \in 1..Len(fetched.rows) :
            fetched.rows[r].feature =
                Concat([k \in 1..Len(pages) |-> pages[k].features])[r]

\* C5 witness: a returned fetch of three pages, the first two with features,
\* that followed two different "next" links.
C5_Witness ==
    /\ fpc = "returned"
    /\ Len(pages) = 3
    /\ pages[1].features = <<"f2", "f1">> /\ pages[2].features = <<"f1">>
    /\ fetch_requests[2].url # fetch_requests[3].url
    /\ Len(pages[1].links) = 2

\* C6: once a page request has answered with a non-success status or an
\* undecodable body, get_collection has raised and has returned nothing, the
\* features of the pages fetched before included.
C6_FailureAborts ==
    failure # "none" =>
        /\ fpc = "raised"
        /\ fetched = NotReturned
        /\ ~fetched.returned /\ fetched.rows = <<>>

\* C6 witness: the third page request fails with a bad status after two pages
\* with features were fetched.
C6_Witness ==
    /\ failure = "status"
    /\ Len(pages) = 2 /\ Len(fetch_requests) = 3
    /\ Len(data_list) >= 2
    /\ fpc = "raised"

\* C7: when the fetch has ended, no request failed and every page carried zero
\* features, get_collection has returned (not raised) an empty result set.
C7_EmptyNotError ==
    (/\ fpc \in {"returned", "raised"}
     /\ failure = "none"
     /\ \A k \in 1..Len(pages) : pages[k].features = <<>>)
    => (/\ fpc = "returned"
        /\ fetched.returned
        /\ fetched.rows = <<>>)

\* C7 witness: a returned fetch of two pages, both without features.
C7_Witness ==
    /\ fpc = "returned"
    /\ Len(pages) = 2
    /\ \A k \in 1..Len(pages) : pages[k].features = <<>>
    /\ fetched = EmptyGeoDataFrame

(***************************************************************************)
(* Claims about the interval-flag scan, checked under SpecFlags.           *)
(***************************************************************************)
FlagNames == {"hammering", "increased_rotation_rate", "flushing"}
ScannedRows == 1..Len(input_df.rows)

\* the rows that carry a start (an end) code of flag f, as a Boolean column
StartRows(f) ==
    IF HasColumn(input_df, "comment_code")
    THEN EventColumnOf(comment_code_str(input_df), start_event_col_name(f))
    ELSE [i \in ScannedRows |-> FALSE]
EndRows(f) ==
    IF HasColumn(input_df, "comment_code")
    THEN EventColumnOf(comment_code_str(input_df), end_event_col_name(f))
    ELSE [i \in ScannedRows |-> FALSE]
IsStartRow(f, i) == StartRows(f)[i]
IsEndRow(f, i) == EndRows(f)[i]

\* C8: a row that matches both an end code and a start code of a flag has that
\* flag false: the end takes precedence over the simultaneous start.
C8_EndPrecedence ==
    flpc = "returned" =>
        \A f \in FlagNames :
            LET starts == StartRows(f)
                ends == EndRows(f)
            IN \A i \in ScannedRows :
                (starts[i] /\ ends[i]) => ~interval_flags[f][i]

\* C8 witness: hammering is on at a row, and the next row, whose code "116"
\* contains both the start code 11 and the end code 16, has it off.
C8_Witness ==
    /\ flpc = "returned"
    /\ \E i \in ScannedRows :
        /\ i > 1
        /\ interval_flags["hammering"][i - 1]
        /\ IsStartRow("hammering", i) /\ IsEndRow("hammering", i)
        /\ ~interval_flags["hammering"][i]

\* the comment codes [None, "11", None, "16", None] at depths 0..4
ExampleCodes == <<NaN, Str(<<1, 1>>), NaN, Str(<<1, 6>>), NaN>>
IsExample ==
    /\ HasColumn(input_df, "comment_code")
    /\ [i \in ScannedRows |-> input_df.rows[i].comment_code] = ExampleCodes

\* C9: each flag is true at row i exactly when some row j <= i is a start row
\* (and not an end row) with no end row after j up to and including i: true
\* from a start row on, up to but not including the next end row, false at
\* every other row.  [None,"11",None,"16",None] gives hammering
\* [False,True,True,False,False].
C9_IntervalShape ==
    flpc = "returned" =>
        /\ \A f \in FlagNames :
            LET starts == StartRows(f)
                ends == EndRows(f)
            IN /\ Len(interval_flags[f]) = Len(input_df.rows)
               /\ \A i \in ScannedRows :
                    interval_flags[f][i] <=>
                        \E j \in 1..i :
                            /\ starts[j] /\ ~ends[j]
                            /\ \A k \in (j + 1)..i : ~ends[k]
        /\ IsExample =>
            interval_flags["hammering"] = <<FALSE, TRUE, TRUE, FALSE, FALSE>>

\* C9 witness: the scan of [None,"11",None,"16",None] has returned.
C9_Witness ==
    /\ flpc = "returned"
    /\ IsExample
    /\ interval_flags["hammering"] = <<FALSE, TRUE, TRUE, FALSE, FALSE>>
    /\ interval_flags["flushing"] = <<FALSE, FALSE, FALSE, FALSE, FALSE>>

(***************************************************************************)
(* Claims about the sounding normalizer, checked under SpecNorm.           *)
(***************************************************************************)
Handled == 1..Len(ks_data_df)

\* document k is one whose column renaming / sorting fails
Malformed(k) ==
    /\ ~ks_data[k].isNone /\ Len(ks_data[k].rows) > 0
    /\ TryRaises(DataOf(ks_data[k], method))

\* the tables a normalization of document k alone can give
OwnTables(k) ==
    IF ks_data[k].isNone \/ Len(ks_data[k].rows) = 0 THEN {CanonicalEmpty}
    ELSE LET df == DataOf(ks_data[k], method) IN
         {AssignFlags(Table(RenamedColumns(df.columns), rows, NoFlags),
                      FlagsFor(method, Table(RenamedColumns(df.columns), rows, NoFlags))) :
            rows \in SortedByDepth(WithCodes(df))}

\* get_soundings has not raised
C10_NeverRaises == npc # "raised"

\* the table of every document is an object of its own
C10_OwnObject ==
    \A k, j \in Handled : k # j => ks_data_df[k] # ks_data_df[j]

\* the table of every well-formed document is what that document alone gives
C10_SiblingsUntouched ==
    \A k \in Handled : ~Malformed(k) => OutputTables[k] \in OwnTables(k)

\* C10 (as claimed): get_soundings never raises because of one document's
\* malformed data, and each output table is built only from its own input
\* document: a failure in document i leaves the table of every other document
\* as that document alone determines it, and gives document i a table of its own.
C10_FailureIsolated ==
    /\ C10_NeverRaises
    /\ C10_OwnObject
    /\ C10_SiblingsUntouched

\* C11 (as claimed): get_soundings returns exactly one table per input
\* document, in input order (table k is what document k alone gives), and the
\* table of a None document is the empty table with the canonical columns.
C11_OneTablePerDocument ==
    npc = "returned" =>
        /\ Len(ks_data_df) = Len(ks_data)
        /\ \A k \in Handled :
            /\ ks_data[k].isNone => OutputTables[k] = CanonicalEmpty
            /\ ~Malformed(k) => OutputTables[k] \in OwnTables(k)

\* C12: in every non-empty table handed back, the three flags are the ones
\* derived from the table's comment codes when the method is tot; for rp and
\* cpt all three flags are false at every row.
C12_FlagsByMethod ==
    \A k \in Handled :
        LET t == OutputTables[k] IN
        Len(t.rows) > 0 =>
            \A c \in {"hammering", "increased_rotation_rate", "flushing"} :
                /\ HasColumn(t, c)
                /\ Len(t.flags[c]) = Len(t.rows)
                /\ IF method = "tot"
                   THEN t.flags[c] = create_intervals_from_comments(t)[c]
                   ELSE \A i \in 1..Len(t.rows) : ~t.flags[c][i]

\* C12 witness: a returned tot call with a table in which hammering is on at a
\* row, and (in another run) an rp call over a document that carries a start code.
C12_Witness ==
    /\ npc = "returned"
    /\ \E k \in Handled :
        LET t == OutputTables[k] IN
        /\ Len(t.rows) = 2
        /\ \/ /\ method = "tot"
              /\ t.flags["hammering"] = <<FALSE, TRUE>>
           \/ /\ method = "rp"
              /\ t.rows[2].comment_code = Str(<<1, 1>>)
              /\ t.flags["hammering"] = <<FALSE, FALSE>>

(***************************************************************************)
(* Claims about the column steps, checked under SpecColumns.               *)
(***************************************************************************)
\* C13 (as claimed): the column steps are idempotent on column names: run over
\* a table whose columns are already renamed (it left a pass before) they give
\* the same labels again, and no label occurs twice.
C13_Idempotent ==
    \A n \in 3..Len(label_history) :
        /\ label_history[n] = label_history[n - 1]
        /\ \A a, b \in 1..Len(label_history[n]) :
            a # b => label_history[n][a] # label_history[n][b]

(***************************************************************************)
(* Claims about the representative depth, checked under SpecDepth.         *)
(***************************************************************************)
\* the call returned the number n
ReturnedNumber(n) ==
    /\ dpc = "returned"
    /\ \/ depth_out = Num(n)
       \/ depth_out.kind = "quotient" /\ depth_out.num = n * depth_out.den

\* C19 (as claimed): for a numeric top and a numeric or null base,
\* _get_sample_depth returns top when top > base and base == 0, top when base
\* is null (nan or None), the common value when top == base, and the midpoint
\* (top + base) / 2 otherwise.
C19_DepthCases ==
    (dpc # "called" /\ depth_top.kind = "num"
                    /\ depth_base.kind \in {"num", "nan", "none"}) =>
        IF depth_base.kind \in {"nan", "none"} THEN ReturnedNumber(depth_top.num)
        ELSE IF depth_top.num > depth_base.num /\ depth_base.num = 0
             THEN ReturnedNumber(depth_top.num)
        ELSE IF depth_top.num = depth_base.num
             THEN ReturnedNumber(depth_top.num)
        ELSE /\ dpc = "returned"
             /\ depth_out.kind = "quotient"
             /\ depth_out.num = depth_top.num + depth_base.num
             /\ depth_out.den = 2

(***************************************************************************)
(* Claims about the soil classification, checked under SpecClassify.       *)
(***************************************************************************)
\* the raw text of a cell, case-folded
Folded(v) == LowerText(PyStr(v))

\* C20: the classification of a group is "nothing" when every value,
\* case-folded, is "nan" or "none"; otherwise "quick_clay" when some value
\* contains "quick", "kvikk" or "sprøbrudd" whatever its case; otherwise
\* "other".
C20_GroupClassification ==
    clpc = "classified" =>
        LET raw == {raw_composition[k] : k \in 1..Len(raw_composition)} IN
        classification =
            IF \A v \in raw : Folded(v) \in {<<"n", "a", "n">>, <<"n", "o", "n", "e">>}
            THEN "nothing"
            ELSE IF \E v \in raw : \E k \in 1..Len(QCL_KWD) :
                        IsSubstring(QCL_KWD[k], Folded(v))
                 THEN "quick_clay"
                 ELSE "other"

\* C20 witness: the group ["Leire", "nan", "Kvikkleire"] was classified
\* quick_clay.
C20_Witness ==
    /\ clpc = "classified"
    /\ raw_composition =
        << Str(<<"L", "e", "i", "r", "e">>),
           Str(<<"n", "a", "n">>),
           Str(<<"K", "v", "i", "k", "k", "l", "e", "i", "r", "e">>) >>
    /\ classification = "quick_clay"

(***************************************************************************)
(* Claims about the sample builder, checked under SpecSamples.             *)
(***************************************************************************)
\* C14 (as claimed): when no investigation of the batch carries a sample-series
\* reference (the column is missing, or it is there and null for every
\* investigation), get_samples returns None and does not raise.
C14_NoSeriesNoneReturned ==
    (spc \in {"returned", "raised"} /\ \A i \in 1..Len(ps) : ps[i] = NoRef) =>
        /\ spc = "returned"
        /\ samples_gdf = NoFrame

(***************************************************************************)
(* Claims about the sounding assembly, checked under SpecSoundings.        *)
(***************************************************************************)
\* no investigation has a static, combined or CPT sounding reference
NoSoundingReference ==
    \A i \in 1..Len(borehullunders) :
        /\ borehullunders[i].ss = "null"
        /\ borehullunders[i].ks = "null"
        /\ borehullunders[i].ts = "null"

\* C16 (as claimed): get_all_soundings returns None without raising when no
\* data is available: when the investigation table is empty, and when it is
\* not empty but no investigation has a sounding reference.
C16_NoDataNoneReturned ==
    (sopc \in {"returned", "raised"} /\ NoSoundingReference) =>
        /\ sopc = "returned"
        /\ boreholes_out = NoBoreholes

(***************************************************************************)
(* Claims about the assembly over a large extent, checked under            *)
(* SpecAssemble.                                                           *)
(***************************************************************************)
\* C15 (as claimed): when the processing of grid cells raised, whatever the
\* set of failing cells, the call still returns: every cell was processed, a
\* failed cell contributes no rows, and the sounding table is the
\* concatenation of the other cells' rows.
C15_FailedCellsSkipped ==
    (apc \in {"returned", "raised"} /\ failed # {}) =>
        /\ apc = "returned"
        /\ Len(borehole_list) = Len(gbhu_list)
        /\ \A k \in failed :
            borehole_list[k] = NoResult /\ sample_list[k] = NoResult
        /\ assembled[2] =
            Concat([k \in 1..Len(gbhu_list) |->
                      IF k \in failed THEN <<>> ELSE CellRows(k).rows])

\* C17 (as claimed): once the grid is computed, if the extent exceeds
\* max_dist_query on either axis then the cell width (maxx - minx) / n_cols and
\* the cell height (maxy - miny) / n_rows are both at most max_dist_query.
C17_CellsWithinMaxExtent ==
    apc # "called" =>
        ((bounds[3] - bounds[1] > max_dist_query
            \/ bounds[4] - bounds[2] > max_dist_query) =>
                /\ bounds[3] - bounds[1] <= max_dist_query * grid[1]
                /\ bounds[4] - bounds[2] <= max_dist_query * grid[2])

\* the investigations fetched with the whole extent as one cell
DirectFetch ==
    SetToSeq({p \in positions : InCell(p, <<0, 0>>, bounds, <<1, 1>>)})

\* C18 (as claimed): the concatenation of the cells' investigation frames
\* holds, up to row order, exactly the investigations of one fetch of the
\* whole extent: each of them once, also those on a boundary shared by cells.
C18_RoundTrip ==
    apc \in {"processing", "returned"} =>
        \A p \in Lattice(bounds) : Count(gbhu, p) = Count(DirectFetch, p)

(***************************************************************************)
(* Termination of the fetcher, checked under SpecFetchLive: the loop of    *)
(* get_collection is synchronous, so a step that is possible is taken.     *)
(***************************************************************************)
SpecFetchLive == InitFetch /\ [][FetchNext]_vars /\ WF_vars(FetchNext)

\* C22: get_collection issues exactly one request per page, every page before
\* the last one received has a "next" link (no request follows a page without
\* one), and once a page without a "next" link has arrived the call returns;
\* the call goes on only as long as the server keeps handing out "next" links.
C22_Terminates ==
    /\ [](/\ cont = Len(fetch_requests)
          /\ Len(pages) = IF failure = "none" THEN cont ELSE cont - 1
          /\ \A k \in 1..(Len(pages) - 1) : HasNext(pages[k]))
    /\ (fpc = "loop" /\ ~next_page) ~> (fpc = "returned")
    /\ <>(fpc # "loop" \/ (cont = MaxPages /\ HasNext(pages[cont])))

\* C22 witness: the call returned after three pages, the third being the
\* first without a "next" link.
C22_Witness ==
    /\ fpc = "returned"
    /\ Len(pages) = 3 /\ Len(fetch_requests) = 3
    /\ HasNext(pages[1]) /\ HasNext(pages[2]) /\ ~HasNext(pages[3])

(***************************************************************************)
(* Further claims about the interval-flag scan, checked under SpecFlags.   *)
(***************************************************************************)
\* the codes configured under one flag_codes entry
ConfiguredCodes(event_col_name) ==
    {flag_codes[event_col_name][k] : k \in 1..Len(flag_codes[event_col_name])}

\* the comment code of row i as text ("" for null)
CodeText(i) == format_comment_value(input_df.rows[i].comment_code)

\* C23 (as claimed): a row is a start (end) event of a flag exactly when its
\* comment code is one of the values configured as that flag's start (end)
\* codes; a null code or any other value is neither.
C23_ExactCodes ==
    (flpc = "returned" /\ HasColumn(input_df, "comment_code")) =>
        \A f \in FlagNames :
            LET starts == StartRows(f)
                ends == EndRows(f)
            IN \A i \in ScannedRows :
                /\ starts[i] <=> CodeText(i) \in ConfiguredCodes(start_event_col_name(f))
                /\ ends[i] <=> CodeText(i) \in ConfiguredCodes(end_event_col_name(f))

\* the flags a code is configured for, as a start or as an end code
FlagsOfCode(code) ==
    {f \in FlagNames :
        \/ code \in ConfiguredCodes(start_event_col_name(f))
        \/ code \in ConfiguredCodes(end_event_col_name(f))}

\* the state of flag f before row i
FlagBefore(f, i) == IF i = 1 THEN FALSE ELSE interval_flags[f][i - 1]

\* C30: the three flags are scanned independently: at a row with code 63 both
\* hammering and flushing are on, at a row with code 64 both are off, and at a
\* row whose code is configured for one flag only the other two flags keep the
\* state they had before the row.
C30_IndependentFlags ==
    (flpc = "returned" /\ HasColumn(input_df, "comment_code")) =>
        \A i \in ScannedRows :
            /\ CodeText(i) = <<6, 3>> =>
                interval_flags["hammering"][i] /\ interval_flags["flushing"][i]
            /\ CodeText(i) = <<6, 4>> =>
                ~interval_flags["hammering"][i] /\ ~interval_flags["flushing"][i]
            /\ Cardinality(FlagsOfCode(CodeText(i))) = 1 =>
                \A g \in FlagNames \ FlagsOfCode(CodeText(i)) :
                    interval_flags[g][i] = FlagBefore(g, i)

\* C30 witness: 63 switches hammering and flushing on together, the next row's
\* 16 ends hammering and leaves flushing on, and a later 64 ends flushing.
C30_Witness ==
    /\ flpc = "returned"
    /\ Len(input_df.rows) >= 3
    /\ CodeText(1) = <<6, 3>> /\ CodeText(2) = <<1, 6>> /\ CodeText(3) = <<6, 4>>
    /\ interval_flags["hammering"][1] /\ interval_flags["flushing"][1]
    /\ ~interval_flags["hammering"][2] /\ interval_flags["flushing"][2]
    /\ ~interval_flags["flushing"][3]

\* C24 (as claimed): _get_sample_depth never raises, and when depth_top or
\* depth_base is a text, or depth_top is null, it returns not-a-number.
C24_NeverRaises ==
    dpc # "called" =>
        /\ dpc = "returned"
        /\ (depth_top.kind \in {"str", "nan", "none"}
                \/ depth_base.kind = "str") => depth_out = NaN

(***************************************************************************)
(* Further claims about the sounding assembly, checked under SpecSoundings. *)
(***************************************************************************)
\* the rows of boreholes_out that belong to method m, in order
RowsOfMethod(m) ==
    SelectSeq(boreholes_out.rows, LAMBDA row : row.method_type = m)

\* the investigations (row numbers) with a non-null reference for method m
Referenced(m) ==
    SelectSeq([k \in 1..Len(borehullunders) |-> k],
              LAMBDA k : borehullunders[k][ReferenceColumn[m]] # "null")

\* C28 (as claimed): once the rows are assembled, each method has as many rows
\* as there are investigations with a reference for it, and row i carries the
\* identifier of the investigation that owns the i-th reference together with
\* the table resolved from that very reference.
C28_RowsPairOwnTable ==
    sopc \in {"assembled", "returned"} =>
        \A m \in Methods :
            /\ Len(RowsOfMethod(m)) = Len(Referenced(m))
            /\ \A i \in 1..Len(RowsOfMethod(m)) :
                /\ RowsOfMethod(m)[i].gbhu_id = Referenced(m)[i]
                /\ RowsOfMethod(m)[i].data = [method |-> m, of |-> Referenced(m)[i]]

(***************************************************************************)
(* The grid of cells: claim C29                                            *)
(***************************************************************************)
CellsOfColumn(i) ==
    {k \in 1..Len(subgrid) : (k - 1) \div split_rows = i}
CellsOfRow(j) ==
    {k \in 1..Len(subgrid) : (k - 1) % split_rows = j}

\* C29: split_bbox returns n_rows * n_cols cells numbered 0 .. n_rows *
\* n_cols - 1, every cell as wide as the quotient (maxx - minx) / n_cols and
\* as high as the quotient (maxy - miny) / n_rows; the cells cover the box exactly (the first column starts at
\* minx, the last ends at maxx, each column starts where the one before it
\* ends, and the same for the rows), and their interiors do not overlap.
C29_CellsTileTheBox ==
    gridpc = "returned" =>
        /\ Len(subgrid) = split_rows * split_cols
        /\ \A k \in 1..Len(subgrid) : subgrid[k].id = k - 1
        /\ \A k \in 1..Len(subgrid) :
            /\ subgrid[k].geometry[3] - subgrid[k].geometry[1]
                   = FloatDiv(FloatSub(bbox[3], bbox[1]), split_cols)
            /\ subgrid[k].geometry[4] - subgrid[k].geometry[2]
                   = FloatDiv(FloatSub(bbox[4], bbox[2]), split_rows)
        /\ \A k \in CellsOfColumn(0) : subgrid[k].geometry[1] = bbox[1]
        /\ \A k \in CellsOfColumn(split_cols - 1) :
               subgrid[k].geometry[3] = bbox[3]
        /\ \A k \in CellsOfRow(0) : subgrid[k].geometry[2] = bbox[2]
        /\ \A k \in CellsOfRow(split_rows - 1) :
               subgrid[k].geometry[4] = bbox[4]
        /\ \A i \in 0..(split_cols - 2) :
               \A k \in CellsOfColumn(i), n \in CellsOfColumn(i + 1) :
                   subgrid[k].geometry[3] = subgrid[n].geometry[1]
        /\ \A j \in 0..(split_rows - 2) :
               \A k \in CellsOfRow(j), n \in CellsOfRow(j + 1) :
                   subgrid[k].geometry[4] = subgrid[n].geometry[2]

(***************************************************************************)
(* The concurrent tasks of one batch: claim C26                            *)
(***************************************************************************)
\* C26: under every interleaving of the three get_soundings tasks, the result
\* list of a task is written only when both of its awaits have resolved: it
\* is empty until the task returns, and once the task has returned it is
\* complete (one table per reference of the task's method) and holds only
\* tables of the task's own method.
C26_ResultsWrittenWhole ==
    \A m \in Methods :
        /\ task[m] # "done" => task_data[m] = <<>>
        /\ task[m] = "done" =>
            /\ Len(task_data[m]) = Len(href_dicts[m])
            /\ \A k \in 1..Len(task_data[m]) : task_data[m][k].method = m

C26_Witness ==
    /\ task["tot"] = "done" /\ Len(task_data["tot"]) = 2
    /\ task["rp"] = "running" /\ href_dicts["rp"] # <<>>
    /\ task["cpt"] = "observations" /\ href_dicts["cpt"] # <<>>

(***************************************************************************)
(* The loop over the cells: claims C25, C27                                *)
(***************************************************************************)
\* the processing of a cell has ended
Ended(event) == event[1] \in {"completed", "failed"}

\* C25: the cells are processed one at a time and in order: the processing
\* of cell k starts only right after that of cell k - 1 has completed or
\* failed, and the samples of a cell are fetched only after its soundings;
\* within a cell, whenever the gather of get_all_soundings is pending, all
\* three sounding tasks (rp, tot, cpt) have been started, none waits for
\* another to finish.
C25_OneCellAtATime ==
    /\ \A i \in 1..Len(cell_events) :
        /\ cell_events[i][1] = "start" =>
            /\ cell_events[i][2] =
                   1 + Cardinality({j \in 1..(i - 1) : cell_events[j][1] = "start"})
            /\ i > 1 =>
                /\ Ended(cell_events[i - 1])
                /\ cell_events[i - 1][2] = cell_events[i][2] - 1
        /\ cell_events[i][1] = "samples" =>
               cell_events[i - 1] = <<"start", cell_events[i][2]>>
        /\ Ended(cell_events[i]) =>
               cell_events[i - 1][1] \in {"start", "samples"}
                   /\ cell_events[i - 1][2] = cell_events[i][2]
    /\ cpc \in {"soundings", "samples"} =>
           ~Ended(cell_events[Len(cell_events)])
    /\ (cpc = "soundings" /\ sopc = "gather") =>
           \A m \in Methods : task[m] \in {"running", "observations", "done"}

C25_Witness ==
    /\ Len(cell_events) = 4
    /\ cell_events[2] = <<"samples", 1>>
    /\ cell_events[3] = <<"completed", 1>>
    /\ cell_events[4] = <<"start", 2>>
    /\ task = [rp |-> "running", tot |-> "observations", cpt |-> "running"]

\* the rows of the tables of a list of results
RowsOfResults(list) ==
    UNION {{list[k].rows[n] : n \in 1..Len(list[k].rows)} : k \in 1..Len(list)}

\* C27: every row of the sounding table and of the sample table, in the
\* results of the cells and in the tables returned, has method_status
\* "conducted" and method_status_id 3.
C27_StatusConducted ==
    \A row \in RowsOfResults(cell_boreholes) \cup RowsOfResults(cell_samples)
               \cup RowsOfResults(<<boreholes_out>>)
               \cup (IF cpc = "returned"
                     THEN {cell_result[1][n] : n \in 1..Len(cell_result[1])}
                          \cup {cell_result[2][n] : n \in 1..Len(cell_result[2])}
                     ELSE {}) :
        /\ row.method_status = "conducted"
        /\ row.method_status_id = 3

C27_Witness ==
    /\ cpc = "returned"
    /\ Len(cell_result[1]) >= 2
    /\ \E n \in 1..Len(cell_result[1]) : cell_result[1][n].method_type = "cpt"
    /\ Len(cell_result[2]) >= 1
    /\ cell_result[2][1].method_type = "sa"

(***************************************************************************)
(* The aggregation of the sample rows: claim C21                           *)
(***************************************************************************)
\* the merged rows with the method identifier g, in frame order
GroupOf(g) == SelectSeq(merged_in, LAMBDA r : r.method_id = g)

\* the classification of a group of raw texts, as C20 states it
GroupClassification(raw) ==
    IF \A v \in raw : Folded(v) \in {<<"n", "a", "n">>, <<"n", "o", "n", "e">>}
    THEN "nothing"
    ELSE IF \E v \in raw : \E k \in 1..Len(QCL_KWD) :
                IsSubstring(QCL_KWD[k], Folded(v))
         THEN "quick_clay"
         ELSE "other"

\* C21: with aggregate true the table has exactly one row per distinct
\* method identifier of the merged rows; in the row of a group the strength
\* is the least strength of the group (null when the group has none), the
\* composition is the group classification of the group's raw texts, and the
\* columns without a rule (method_id, name) hold the value of the group's
\* first row.
C21_OneRowPerMethod ==
    (agpc = "done" /\ aggregate /\ merged_in # <<>>) =>
        /\ \A g \in {MethodIds[k] : k \in 1..Len(MethodIds)} :
               Cardinality({n \in 1..Len(sample_merged) :
                               sample_merged[n].method_id = g})
                   = IF GroupOf(g) = <<>> THEN 0 ELSE 1
        /\ \A n \in 1..Len(sample_merged) :
            LET members == GroupOf(sample_merged[n].method_id)
                strengths == {members[k].strength_undrained.num :
                                 k \in {j \in 1..Len(members) :
                                     members[j].strength_undrained.kind = "num"}}
            IN /\ IF strengths = {}
                  THEN sample_merged[n].strength_undrained = NaN
                  ELSE /\ sample_merged[n].strength_undrained.kind = "num"
                       /\ sample_merged[n].strength_undrained.num \in strengths
                       /\ \A s \in strengths :
                              sample_merged[n].strength_undrained.num <= s
               /\ sample_merged[n].layer_composition =
                      GroupClassification({members[k].layer_composition :
                                              k \in 1..Len(members)})
               /\ sample_merged[n].name = members[1].name

\* C21 witness: two rows of one method, strengths 2 and 1, names "b" and
\* "a", texts "Leire" and "Kvikkleire": one row with strength 1, name "b",
\* quick_clay.
C21_Witness ==
    /\ agpc = "done" /\ aggregate
    /\ Len(merged_in) = 2 /\ Len(sample_merged) = 1
    /\ merged_in[1].strength_undrained = Num(2)
    /\ merged_in[2].strength_undrained = Num(1)
    /\ merged_in[1].name = Str(<<"b">>) /\ merged_in[2].name = Str(<<"a">>)
    /\ sample_merged[1].strength_undrained = Num(1)
    /\ sample_merged[1].name = Str(<<"b">>)
    /\ sample_merged[1].layer_composition = "quick_clay"

====
